---- MODULE Spec2Model ----
(***************************************************************************)
(* A model of the ors kernel core: the task scheduler (task.rs), its       *)
(* TaskQueue, and the blocking mutex built on it (sync/mutex.rs).          *)
(*                                                                         *)
(* Option<T> values are modelled as sets with at most one element:         *)
(* None is {} and Some(x) is {x}.  A BTreeMap is a function whose DOMAIN   *)
(* is the set of keys present.  A Task is the record of its id and its     *)
(* priority; the Context it owns is the entry saved[id].                   *)
(***************************************************************************)
EXTENDS Integers, Sequences, FiniteSets, TLC

(* ------------------------------ bounds -------------------------------- *)
\* Tasks ever created (task_id_gen stays below this).
MaxTasks == 3
\* PendingIds ever issued (pending_id_gen stays below this).
MaxPending == 2
\* The tick counter stays at or below this where timeouts are in play.
MaxTicks == 1
\* sleep and block timeouts are drawn from 0..MaxTimeout.
MaxTimeout == 1
\* Wait channels are 1..NumChans.
NumChans == 1
\* The tick counter stays at or below this where tasks contend for the Mutex.
MaxPreempt == 6
\* The increments every task makes under the Mutex.
Increments == 2

(* ------------------------- program constants -------------------------- *)
\* Priority::SIZE
PrioritySize == 4

\* Priority::MIN.index() and Priority::MAX.index()
PriorityMin == 0
PriorityMax == PrioritySize - 1

Levels == PriorityMin..PriorityMax
Chans == 1..NumChans
Timeouts == 0..MaxTimeout
\* The CPUs of the machine; only the bootstrap processor is ever started.
Cpus == {"bsp"}
\* Cpu::list(): the bootstrap processor and the application processors, every
\* one with a CpuState of its own.
AllCpus == {"bsp", "ap"}

\* CpuThreadState::new
CpuThreadState_new == [ncli |-> 0, zcli |-> FALSE]

\* The capacity N of the Queue<T, N> explored, and the number of calls every
\* task makes on it.
QueueN == 2
QueueItems == 3
\* The ticks of the timer and the blocking switches explored with the Queue.
MaxQueueTicks == 2
MaxQueuePending == 3
\* The priorities of the tasks that call the Queue: L0 up to this level.
MaxQueueLevel == 1
\* The items an interrupt handler hands to try_enqueue.
MaxQueueIrq == 1
\* The timeout handed to enqueue_timeout and dequeue_timeout.
QueueTimeout == 1
\* Queue::empty_chan and Queue::full_chan: the address of the Queue with the
\* index 0 and 1.
EmptyChan == 2
FullChan == 3

\* Nothing has returned yet.  got: the items dequeue has returned, in the
\* order of return; sent: the items enqueue has returned Ok for; failed: the
\* calls of enqueue_timeout and try_enqueue that handed the item back;
\* rel_full: how many times full_chan has been released; irq: how many items
\* interrupt handlers have enqueued.
NoLog == [got |-> <<>>, sent |-> {}, failed |-> {}, rel_full |-> 0, irq |-> 0]

\* The queue_size of the VirtQueue explored, the buffers of one transfer and
\* the transfers made.
VqSize == 3
MaxBuffers == 3
MaxTransfers == 4
\* The values of a u16
U16 == 65536

\* VirtQueue::new: the memory is zeroed, the descriptors chained in their
\* order and all free, no data associated.  A descriptor is modelled by its
\* next(): the next field under the NEXT flag.
VirtQueue_new ==
    [descriptor_table |-> [i \in 0..(VqSize - 1) |->
                            IF i < VqSize - 1 THEN {i + 1} ELSE {}],
     available_ring |-> [idx |-> 0, ring |-> [i \in 0..(VqSize - 1) |-> 0]],
     used_ring |-> [idx |-> 0, ring |-> [i \in 0..(VqSize - 1) |-> 0]],
     last_used_idx |-> 0,
     first_free_descriptor |-> 0,
     num_free_descriptors |-> VqSize,
     buffer_associated_data |-> [i \in 0..(VqSize - 1) |-> {}],
     panic |-> {}]

\* No operation on the VirtQueue yet.  n counts the transfers made.
NoTransfer == [op |-> "none", before |-> VirtQueue_new, buffers |-> <<>>,
               ret |-> "none", handled |-> <<>>, n |-> 0]

\* Block: the largest u64 of the model (u64::MAX in the code), the longest
\* buffer in sectors, and the number of reads and writes made.
MaxSector == 7
MaxSectors == 2
MaxRequests == 2
\* Block::SECTOR_SIZE
SectorSize == 512
\* The number of values of a u64.
U64 == MaxSector + 1

\* No read or write of a Block has been made.
NoRequest == [kind |-> "none", capacity |-> 0, sector |-> 0, len |-> 0,
              overflow_checks |-> FALSE, check |-> "none", ret |-> "none",
              transferred |-> FALSE, notified |-> FALSE]

\* Frame manager: the number of frames of physical memory (FRAME_COUNT in the
\* code), the largest number of frames asked for, the descriptors of a memory
\* map and the ranges held at a time.
MaxFrames == 6
MaxNumFrames == 3
MaxDescriptors == 2
MaxHeld == 3
\* Frame::SIZE
FrameSize == 4096
\* Frame::MIN
FrameMin == 1

\* BitmapFrameManager::new
BitmapFrameManager_new ==
    [alloc_map |-> [i \in 0..(MaxFrames - 1) |-> FALSE], begin |-> FrameMin, end |-> MaxFrames]

\* No operation on the frame manager yet; mm is the memory map given to
\* initialize, if it has been called.
NoAllocation == [op |-> "none", num_frames |-> 0, frame |-> 0, ret |-> {},
                 before |-> BitmapFrameManager_new, mm |-> {}]

\* KernelAllocator: the allocations alive at a time.
MaxLive == 2
\* BLOCK_SIZES
BLOCK_SIZES == <<8, 16, 32, 64, 128, 256, 512, 1024, 2048>>
\* ptr::null_mut()
Null == 0

\* KernelAllocator::new.  mem holds the u64 written at the start of every
\* free block, live the blocks and frames handed out with their layouts, and
\* carved, as history, the class of every frame taken to refill a class.
KernelAllocator_new ==
    [available_blocks |-> [index \in 1..Len(BLOCK_SIZES) |-> Null],
     mem |-> [x \in {} |-> {}], live |-> {}, carved |-> [x \in {} |-> 0]]

\* No call of the KernelAllocator yet.
NoAlloc == [op |-> "none", size |-> 0, align |-> 0, mode |-> <<"none", 0>>,
            alloc_mode |-> <<"none", 0>>, ret |-> Null,
            before |-> KernelAllocator_new.available_blocks, needed_frames |-> 0]

\* Block::scan: the virtio block devices on the PCI bus.
MaxDevices == 3

\* Nothing has been scanned.  Of every device found so far: what it is like,
\* its device status register, and what the driver has done to it, in order.
NoDevices == [pc |-> "scan", nature |-> <<>>, status |-> <<>>, log |-> <<>>, blocks |-> <<>>]

\* Block::request: the tasks that request, and the wrap of the tick counter.
MaxRequesters == 2
TickWrap == 2

\* The requests of the tasks on a Block: the RequestFooter of every request
\* (status 0 until the device writes it), what the request returned, the
\* interrupt of the requestq sent and not yet handled, and, as history, the
\* tasks that found the requestq without free descriptors.
NoRequests == [footer |-> [x \in {} |-> {}], ret |-> [x \in {} |-> {}],
               irq |-> FALSE, stalled |-> {}]

\* The queue lock: the deepest nesting of calls of the scheduler explored.
MaxLockDepth == 2

\* A CPU outside the lock of TaskScheduler.queue.  fn is the method of the
\* TaskScheduler that asked for the lock, pc where it is, depth how many calls
\* of the scheduler are below it on the stack.
NoLock == [pc |-> "idle", fn |-> "none", depth |-> 0]

\* non_contiguous::Array<I, V, N>: the N explored, the keys and the values.
ArrayN == 3
MaxKey == 5
MaxValue == 2

\* Array::new
Array_new == [len |-> 0, buckets |-> [index \in 0..(ArrayN - 1) |-> {}]]

\* No insert was made.  map is the map the inserts so far describe.
\* prev is what the map held under the key before the call.
NoInserts == [map |-> [x \in {} |-> 0], op |-> "none", key |-> 0, value |-> 0, ret |-> {},
              prev |-> {}]

\* No Cli value is alive.  live holds, for every Cli value alive, whether
\* interrupts were enabled before Cli::new, the outermost first; deepest is the
\* deepest nesting since the outermost of them was made; closed holds, right
\* after the drop of an outermost Cli, what interrupts were before its new.
NoScopes == [live |-> <<>>, deepest |-> 0, closed |-> {}]

(* ------------------------------ helpers ------------------------------- *)
Some(x) == {x}
Get(o) == CHOOSE x \in o : TRUE

EmptyMap == [x \in {} |-> {}]
MapInsert(m, k, v) == [x \in (DOMAIN m) \cup {k} |-> IF x = k THEN v ELSE m[x]]
MapRemove(m, k) == [x \in (DOMAIN m) \ {k} |-> m[x]]

\* Vec::retain(|i| i != id)
RECURSIVE Retain(_, _)
Retain(ids, id) ==
    IF ids = <<>> THEN <<>>
    ELSE IF Head(ids) = id THEN Retain(Tail(ids), id)
         ELSE <<Head(ids)>> \o Retain(Tail(ids), id)

VARIABLES
    task_id_gen,    \* TaskScheduler.task_id_gen
    queue,          \* TaskScheduler.queue: the TaskQueue
    running_task,   \* CpuState.running_task of every CPU
    TICKS,          \* interrupts::TICKS
    saved,          \* Context.saved of every task created
    sw,             \* where each CPU is inside TaskScheduler::switch
    last,           \* history: the last TaskQueue operation and the queue before it
    sleep_at,       \* history: the pending sleep() call of every task
    picks,          \* history: the tasks chosen by the latest run of yields
    mutex,          \* one sync::Mutex: the value of `locked` and who holds its Spin
    counter,        \* the u32 the Mutex protects
    prog,           \* where the entry function of every task is
    thread_state,   \* CpuState.thread_state of every CPU: ncli and zcli
    intr,           \* RFLAGS.IF of every CPU: maskable interrupts are enabled
    iframe,         \* the RFLAGS.IF in the InterruptStackFrame of a handler running
    scopes,         \* history: the Cli values alive on every CPU, outermost first
    contexts,       \* what switch_context saved of every task switched out
    panic,          \* the assertion that failed, if one did
    inner,          \* sync Queue: the items in its MpMcQueue, oldest first
    qtask,          \* sync Queue: the call every task is in
    log,            \* history: what the calls on the sync Queue returned
    vq,             \* VirtQueue: its fields and the memory of its three parts
    vdev,           \* VirtQueue: what the device has taken and not yet used
    vlast,          \* history: the last operation on the VirtQueue
    req,            \* virtio Block: the last read or write and what it did
    dev,            \* virtio Block: the scan of the PCI devices and their registers
    blk,            \* virtio Block: the footers of the requests, their results, the interrupt
    fm,             \* the BitmapFrameManager: alloc_map, begin and end
    ranges,         \* history: the ranges allocate returned, not freed yet
    flast,          \* history: the last operation on the frame manager
    heap,           \* the KernelAllocator: available_blocks and the links in memory
    hlast,          \* history: the last call of the KernelAllocator
    qlock,          \* TaskScheduler.queue as a sync::mutex::Mutex: where each CPU is in its lock
    array,          \* a non_contiguous::Array: len and buckets
    shadow          \* history: the map the inserts describe, and the last call on the Array

hvars == <<last, sleep_at, picks>>
mvars == <<mutex, counter, prog>>
cvars == <<thread_state, intr, iframe, scopes, contexts, panic>>
svars == <<task_id_gen, queue, running_task, TICKS, saved, sw, last, sleep_at,
           picks, mutex, counter, prog>>
qvars == <<inner, qtask, log>>
vars == <<task_id_gen, queue, running_task, TICKS, saved, sw, last, sleep_at,
          picks, mutex, counter, prog, thread_state, intr, iframe, scopes,
          contexts, panic, inner, qtask, log, vq, vdev, vlast, req, dev, blk,
          fm, ranges, flast, heap, hlast, qlock, array, shadow>>
dvars == <<vq, vdev, vlast>>
bvars == <<req, dev, blk>>
fvars == <<fm, ranges, flast>>
avars == <<heap, hlast>>
nvars == <<array, shadow>>
ovars == <<qlock, nvars>>
\* What the scheduler alone, the Cli alone, the scheduler with the Cli, the
\* sync Queue over the scheduler, and the VirtQueue leave as they are.
notsched == <<cvars, qvars, dvars, bvars, fvars, avars, ovars>>
notcli == <<svars, qvars, dvars, bvars, fvars, avars, ovars>>
notswitch == <<qvars, dvars, bvars, fvars, avars, ovars>>
notqueue == <<cvars, dvars, bvars, fvars, avars, ovars>>
notvirtq == <<svars, cvars, qvars, bvars, fvars, avars, ovars>>
\* What a read or write of a Block, alone, leaves as it is.
notblock == <<svars, cvars, qvars, fvars, avars, ovars>>
\* What the frame manager leaves as it is.
notalloc == <<svars, cvars, qvars, dvars, bvars, ovars>>
notframe == <<svars, cvars, qvars, dvars, bvars, avars, ovars>>

(* ------------------------------- Task --------------------------------- *)
\* Task::new
Task_new(id, priority) == [id |-> id, priority |-> priority]

\* Task::new_current
new_current(id, priority) == [id |-> id, priority |-> priority]

\* interrupts::ticks()
ticks == TICKS

(* ------------------------------ Switch -------------------------------- *)
SwitchYield == [kind |-> "Yield", chan |-> 0, timeout |-> {}, ticks |-> 0]
SwitchSleep(t) == [kind |-> "Sleep", chan |-> 0, timeout |-> {}, ticks |-> t]
SwitchBlocked(chan, timeout) ==
    [kind |-> "Blocked", chan |-> chan, timeout |-> timeout, ticks |-> 0]

(* ----------------------------- TaskQueue ------------------------------ *)
\* TaskQueue::new
TaskQueue_new ==
    [pending_id_gen |-> 0,
     runnable_tasks |-> [i \in Levels |-> <<>>],
     pending_tasks  |-> EmptyMap,
     blocks         |-> EmptyMap,
     timeouts       |-> {}]

\* A push at the front of the FIFO instead.
push_front(q, task) ==
    [q EXCEPT !.runnable_tasks[task.priority] = <<task>> \o @]

\* VecDeque::push_back on the FIFO of the task's priority
push_back(q, task) ==
    [q EXCEPT !.runnable_tasks[task.priority] = Append(@, task)]

\* TaskQueue::enqueue
enqueue(q, task) == push_back(q, task)

\* A Blocked arm that lists the PendingId under no channel.
blocks_push_nothing(blocks, chan, id) == blocks

\* blocks.entry(chan).or_default().push(id)
blocks_push(blocks, chan, id) ==
    IF chan \in DOMAIN blocks
    THEN [blocks EXCEPT ![chan] = Append(@, id)]
    ELSE MapInsert(blocks, chan, <<id>>)

\* A scan without the .rev(): the lowest level at or above the minimum first.
scan_levels_upward(q, i, minimum_level_index) ==
    LET L == {l \in minimum_level_index..i : q.runnable_tasks[l] # <<>>}
    IN  IF L = {} THEN {} ELSE {CHOOSE l \in L : \A k \in L : l <= k}

\* The scan of dequeue: .iter_mut().enumerate().rev()
\*   .take_while(|(i, _)| minimum_level_index <= *i).find_map(pop_front).
\* The result is the set holding the level popped from, or {} when the scan
\* ends without a task.
RECURSIVE scan_levels(_, _, _)
scan_levels(q, i, minimum_level_index) ==
    IF i < PriorityMin \/ ~(minimum_level_index <= i) THEN {}
    ELSE IF q.runnable_tasks[i] # <<>> THEN {i}
         ELSE scan_levels(q, i - 1, minimum_level_index)

\* A match whose Blocked arm sets the deadline one tick late.
dispose_late(q, current_task, current_switch) ==
    CASE current_switch.kind = "Blocked" ->
            LET id == q.pending_id_gen
                q1 == [q EXCEPT !.pending_id_gen = @ + 1,
                                !.pending_tasks = MapInsert(@, id, current_task),
                                !.blocks = blocks_push(@, current_switch.chan, id)]
            IN  IF current_switch.timeout # {}
                THEN [q1 EXCEPT !.timeouts = @ \cup
                        {<<ticks + Get(current_switch.timeout) + 1, id,
                           Some(current_switch.chan)>>}]
                ELSE q1
      [] current_switch.kind = "Sleep" ->
            LET id == q.pending_id_gen
            IN  [q EXCEPT !.pending_id_gen = @ + 1,
                          !.pending_tasks = MapInsert(@, id, current_task),
                          !.timeouts = @ \cup
                              {<<ticks + current_switch.ticks, id, {}>>}]
      [] OTHER -> push_back(q, current_task)

\* A match whose Yield arm forgets current_task.
dispose_dropping(q, current_task, current_switch) ==
    IF current_switch.kind = "Yield" THEN q
    ELSE LET id == q.pending_id_gen
         IN  [q EXCEPT !.pending_id_gen = @ + 1,
                       !.pending_tasks = MapInsert(@, id, current_task)]

\* The match on current_switch inside dequeue: what becomes of current_task.
dispose(q, current_task, current_switch) ==
    CASE current_switch.kind = "Blocked" ->
            LET id == q.pending_id_gen
                q1 == [q EXCEPT !.pending_id_gen = @ + 1,
                                !.pending_tasks = MapInsert(@, id, current_task),
                                !.blocks = blocks_push(@, current_switch.chan, id)]
            IN  IF current_switch.timeout # {}
                THEN [q1 EXCEPT !.timeouts = @ \cup
                        {<<ticks + Get(current_switch.timeout), id,
                           Some(current_switch.chan)>>}]
                ELSE q1
      [] current_switch.kind = "Sleep" ->
            LET id == q.pending_id_gen
            IN  [q EXCEPT !.pending_id_gen = @ + 1,
                          !.pending_tasks = MapInsert(@, id, current_task),
                          !.timeouts = @ \cup
                              {<<ticks + current_switch.ticks, id, {}>>}]
      [] OTHER -> push_back(q, current_task)

\* A dequeue whose minimum_level_index is 0 whatever the switch.
dequeue_any_level(q, current_task, current_switch) ==
    LET found == scan_levels(q, PriorityMax, 0)
    IN  IF found # {}
        THEN LET lvl == Get(found)
                 next_task == Head(q.runnable_tasks[lvl])
                 q1 == [q EXCEPT !.runnable_tasks[lvl] = Tail(@)]
             IN  [queue |-> dispose(q1, current_task, current_switch),
                  task |-> next_task]
        ELSE [queue |-> q, task |-> current_task]

\* TaskQueue::dequeue: the queue after the call and the task returned.
dequeue(q, current_task, current_switch) ==
    LET minimum_level_index ==
            IF current_switch.kind = "Yield" THEN current_task.priority ELSE 0
        found == scan_levels(q, PriorityMax, minimum_level_index)
    IN  IF found # {}
        THEN LET lvl == Get(found)
                 next_task == Head(q.runnable_tasks[lvl])
                 q1 == [q EXCEPT !.runnable_tasks[lvl] = Tail(@)]
             IN  [queue |-> dispose(q1, current_task, current_switch),
                  task |-> next_task]
        ELSE [queue |-> q, task |-> current_task]

\* A loop that looks the tasks up with get and leaves them in pending_tasks.
RECURSIVE release_ids_pending(_, _)
release_ids_pending(q, ids) ==
    IF ids = <<>> THEN q
    ELSE LET id == Head(ids)
         IN  IF id \in DOMAIN q.pending_tasks
             THEN release_ids_pending(push_back(q, q.pending_tasks[id]), Tail(ids))
             ELSE release_ids_pending(q, Tail(ids))

\* The loop of release over the ids taken out of blocks[chan].
RECURSIVE release_ids(_, _)
release_ids(q, ids) ==
    IF ids = <<>> THEN q
    ELSE LET id == Head(ids)
         IN  IF id \in DOMAIN q.pending_tasks
             THEN release_ids(
                    push_back([q EXCEPT !.pending_tasks = MapRemove(@, id)],
                              q.pending_tasks[id]),
                    Tail(ids))
             ELSE release_ids(q, Tail(ids))

\* A release that uses blocks.get instead of blocks.remove.
release_keeping_entry(q, chan) ==
    IF chan \in DOMAIN q.blocks THEN release_ids(q, q.blocks[chan]) ELSE q

\* TaskQueue::release
release(q, chan) ==
    IF chan \in DOMAIN q.blocks
    THEN release_ids([q EXCEPT !.blocks = MapRemove(@, chan)], q.blocks[chan])
    ELSE q

\* BinaryHeap<Reverse<(usize, PendingId, Option<WaitChannel>)>>::peek:
\* the least entry; PendingIds are unique, so (deadline, id) decides.
heap_peek(timeouts) ==
    CHOOSE e \in timeouts :
        \A f \in timeouts : e[1] < f[1] \/ (e[1] = f[1] /\ e[2] <= f[2])

\* A turn of the loop that leaves blocks alone.
elapse_entry_no_retain(q, e) ==
    LET id == e[2]
        q1 == IF id \in DOMAIN q.pending_tasks
              THEN push_back([q EXCEPT !.pending_tasks = MapRemove(@, id)],
                             q.pending_tasks[id])
              ELSE q
    IN  [q1 EXCEPT !.timeouts = @ \ {e}]

\* One turn of the loop of elapse, for the expired entry e at the top.
elapse_entry(q, e) ==
    LET id == e[2]
        q1 == IF id \in DOMAIN q.pending_tasks
              THEN push_back([q EXCEPT !.pending_tasks = MapRemove(@, id)],
                             q.pending_tasks[id])
              ELSE q
        q2 == IF e[3] # {} /\ Get(e[3]) \in DOMAIN q1.blocks
              THEN [q1 EXCEPT !.blocks[Get(e[3])] = Retain(@, id)]
              ELSE q1
    IN  [q2 EXCEPT !.timeouts = @ \ {e}]

\* A loop whose test is `*t < ticks`.
RECURSIVE elapse_loop_strict(_, _)
elapse_loop_strict(q, now) ==
    IF q.timeouts # {} /\ heap_peek(q.timeouts)[1] < now
    THEN elapse_loop_strict(elapse_entry(q, heap_peek(q.timeouts)), now)
    ELSE q

\* The loop of elapse: while the top of the heap has a deadline <= now.
RECURSIVE elapse_loop(_, _)
elapse_loop(q, now) ==
    IF q.timeouts # {} /\ heap_peek(q.timeouts)[1] <= now
    THEN elapse_loop(elapse_entry(q, heap_peek(q.timeouts)), now)
    ELSE q

\* An elapse that is one tick ahead.
elapse_ahead(q) == elapse_loop(q, ticks + 1)

\* TaskQueue::elapse
elapse(q) == elapse_loop(q, ticks)

(* --------------------------- TaskScheduler ---------------------------- *)
\* The closures handed to switch as scheduling_op, with what they capture.
\* guard tells whether the closure drops a spin guard (block does).
OpYield == [name |-> "yield", chan |-> 0, timeout |-> {}, ticks |-> 0, guard |-> FALSE]
OpSleep(t) == [name |-> "sleep", chan |-> 0, timeout |-> {}, ticks |-> t, guard |-> FALSE]
OpBlock_yielding(chan, timeout) ==
    [name |-> "yield", chan |-> chan, timeout |-> timeout, ticks |-> 0, guard |-> TRUE]
OpBlock(chan, timeout) ==
    [name |-> "block", chan |-> chan, timeout |-> timeout, ticks |-> 0, guard |-> TRUE]

\* The closures of Queue::enqueue, enqueue_timeout, dequeue, dequeue_timeout.
OpEnqueue(timeout) ==
    [name |-> "enqueue", chan |-> FullChan, timeout |-> timeout, ticks |-> 0,
     guard |-> FALSE]
OpDequeue(timeout) ==
    [name |-> "dequeue", chan |-> EmptyChan, timeout |-> timeout, ticks |-> 0,
     guard |-> FALSE]

\* What scheduling_op returns: the Option<Switch>.  The closures of the Queue
\* try the MpMcQueue again and cancel the switch if that succeeds.
scheduling_op(op) ==
    CASE op.name = "yield" -> Some(SwitchYield)
      [] op.name = "sleep" -> Some(SwitchSleep(op.ticks))
      [] op.name = "block" -> Some(SwitchBlocked(op.chan, op.timeout))
      [] op.name = "enqueue" ->
            IF Len(inner) < QueueN THEN {} ELSE Some(SwitchBlocked(op.chan, op.timeout))
      [] op.name = "dequeue" ->
            IF inner # <<>> THEN {} ELSE Some(SwitchBlocked(op.chan, op.timeout))
      [] OTHER -> {}

\* A CPU outside switch.
Running == [pc |-> "run", cpu_task |-> {}, current |-> {}, op |-> {}]

NoOp == [op |-> "none", before |-> TaskQueue_new, current |-> {}, switch |-> {},
         chosen |-> {}, chan |-> {}, now |-> 0]

\* The program of a task that uses the scheduler freely.
Free == [pc |-> "free", i |-> 0, tmp |-> 0]

\* The program of a task that is to lock the Mutex and add one to the value it
\* protects, Increments times over: for i in 0..Increments { *m.lock() += 1 }
Locker == [pc |-> "lock", i |-> 0, tmp |-> 0]

\* The id of the context running on c: that of running_task, or the one
\* Task::new_current will get at the first switch on c.
cur_id(c) == IF running_task[c] = {} THEN task_id_gen ELSE Get(running_task[c]).id

\* The context running on c is outside switch and runs with interrupts enabled,
\* free to call the scheduler.
cur_pc(c) == IF running_task[c] = {} THEN "free" ELSE prog[Get(running_task[c]).id].pc
cur_free(c) == sw[c].pc = "run" /\ cur_pc(c) = "free"

\* Interrupts are enabled on c: no Cli is alive, neither that of switch nor that
\* of a SpinGuard.
Interruptible(c) == sw[c].pc = "run" /\ mutex.spin # Some(c)

\* switch up to the point where the queue lock is requested: the Cli scope is
\* entered and running_task is taken, or made by Task::new_current.
\* resume is where the caller goes on once switch has returned.
switch_enter(c, op, resume) ==
    /\ sw[c].pc = "run"
    /\ LET fresh == running_task[c] = {}
           cpu_task == IF fresh THEN new_current(task_id_gen, PriorityMin)
                       ELSE Get(running_task[c])
       IN  /\ fresh => task_id_gen < MaxTasks
           /\ task_id_gen' = IF fresh THEN task_id_gen + 1 ELSE task_id_gen
           /\ saved' = IF fresh THEN MapInsert(saved, cpu_task.id, FALSE) ELSE saved
           /\ prog' = MapInsert(prog, cpu_task.id,
                    [(IF fresh THEN Free ELSE prog[cpu_task.id]) EXCEPT !.pc = resume])
           /\ running_task' = [running_task EXCEPT ![c] = {}]
           /\ sw' = [sw EXCEPT ![c] = [pc |-> "taken", cpu_task |-> {cpu_task},
                                       current |-> {cpu_task}, op |-> {op}]]

\* TaskScheduler::add
add(c, priority) ==
    /\ cur_free(c)
    /\ task_id_gen < MaxTasks
    /\ task_id_gen' = task_id_gen + 1
    /\ queue' = enqueue(queue, Task_new(task_id_gen, priority))
    /\ saved' = MapInsert(saved, task_id_gen, TRUE)
    /\ prog' = MapInsert(prog, task_id_gen, Free)
    /\ last' = [NoOp EXCEPT !.op = "add", !.before = queue, !.now = ticks]
    /\ picks' = <<>>
    /\ sleep_at' = MapInsert(sleep_at, task_id_gen, {})
    /\ UNCHANGED <<running_task, TICKS, sw, mutex, counter>>

Add(c, priority) == add(c, priority) /\ UNCHANGED notsched

\* TaskScheduler::yield, up to the request of the queue lock
Yield(c) ==
    /\ cur_free(c)
    /\ switch_enter(c, OpYield, "free")
    /\ sleep_at' = MapInsert(sleep_at, cur_id(c), {})
    /\ UNCHANGED <<queue, TICKS, last, picks, mutex, counter>>
    /\ UNCHANGED notsched

\* TaskScheduler::sleep, up to the request of the queue lock
Sleep(c, t) ==
    /\ cur_free(c)
    /\ queue.pending_id_gen < MaxPending
    /\ switch_enter(c, OpSleep(t), "free")
    /\ sleep_at' = MapInsert(sleep_at, cur_id(c), Some(<<ticks, t>>))
    /\ UNCHANGED <<queue, TICKS, last, picks, mutex, counter>>
    /\ UNCHANGED notsched

\* A caller that holds the guard of a Spin calls TaskScheduler::block, up to the
\* request of the queue lock.
Block(c, chan, timeout) ==
    /\ cur_free(c)
    /\ queue.pending_id_gen < MaxPending
    /\ mutex.spin = {}
    /\ mutex' = [mutex EXCEPT !.spin = Some(c)]
    /\ switch_enter(c, OpBlock(chan, timeout), "free")
    /\ sleep_at' = MapInsert(sleep_at, cur_id(c), {})
    /\ UNCHANGED <<queue, TICKS, last, picks, counter>>
    /\ UNCHANGED notsched

\* The locked part of a switch whose dequeue returns the task chosen without
\* waiting for its context.
switch_locked_no_wait(c) ==
    /\ sw[c].pc = "taken"
    /\ LET cpu_task == Get(sw[c].cpu_task)
           op == Get(sw[c].op)
           switch == scheduling_op(op)
           r == IF switch # {} THEN dequeue(queue, cpu_task, Get(switch))
                ELSE [queue |-> queue, task |-> cpu_task]
       IN  /\ queue' = r.queue
           /\ saved' = IF r.task # cpu_task
                       THEN [saved EXCEPT ![cpu_task.id] = FALSE] ELSE saved
           /\ mutex' = IF op.guard THEN [mutex EXCEPT !.spin = {}] ELSE mutex
           /\ sw' = [sw EXCEPT ![c] = [pc |-> "chosen", cpu_task |-> {r.task},
                                       current |-> {cpu_task}, op |-> {op}]]
           /\ last' = IF switch # {}
                      THEN [NoOp EXCEPT !.op = "dequeue", !.before = queue,
                                        !.current = {cpu_task}, !.switch = switch,
                                        !.chosen = {r.task}, !.now = ticks]
                      ELSE last
           /\ picks' = IF switch # {} /\ Get(switch).kind = "Yield"
                       THEN LET p == Append(picks, r.task.id)
                            IN  IF Len(p) > MaxTasks THEN Tail(p) ELSE p
                       ELSE <<>>
    /\ UNCHANGED <<task_id_gen, running_task, TICKS, sleep_at, counter, prog>>

\* The part of switch that holds the queue lock: scheduling_op, then dequeue.
switch_locked(c) ==
    /\ sw[c].pc = "taken"
    /\ LET cpu_task == Get(sw[c].cpu_task)
           op == Get(sw[c].op)
           switch == scheduling_op(op)
           r == IF switch # {} THEN dequeue(queue, cpu_task, Get(switch))
                ELSE [queue |-> queue, task |-> cpu_task]
       IN  /\ r.task # cpu_task => saved[r.task.id]
           /\ queue' = r.queue
           /\ saved' = IF r.task # cpu_task
                       THEN [saved EXCEPT ![cpu_task.id] = FALSE] ELSE saved
           /\ mutex' = IF op.guard THEN [mutex EXCEPT !.spin = {}] ELSE mutex
           /\ sw' = [sw EXCEPT ![c] = [pc |-> "chosen", cpu_task |-> {r.task},
                                       current |-> {cpu_task}, op |-> {op}]]
           /\ last' = IF switch # {}
                      THEN [NoOp EXCEPT !.op = "dequeue", !.before = queue,
                                        !.current = {cpu_task}, !.switch = switch,
                                        !.chosen = {r.task}, !.now = ticks]
                      ELSE last
           /\ picks' = IF switch # {} /\ Get(switch).kind = "Yield"
                       THEN LET p == Append(picks, r.task.id)
                            IN  IF Len(p) > MaxTasks THEN Tail(p) ELSE p
                       ELSE <<>>
    /\ UNCHANGED <<task_id_gen, running_task, TICKS, sleep_at, counter, prog>>

SwitchLocked(c) == switch_locked(c) /\ UNCHANGED notsched

\* The end of switch: running_task.replace(cpu_task), Context::switch, which
\* saves the context of the task switched out, and the end of the Cli scope.
switch_end(c) ==
    /\ sw[c].pc = "chosen"
    /\ running_task[c] = {}
    /\ LET next == Get(sw[c].cpu_task)
           current == Get(sw[c].current)
       IN  /\ running_task' = [running_task EXCEPT ![c] = {next}]
           /\ saved' = IF current # next
                       THEN [saved EXCEPT ![current.id] = TRUE] ELSE saved
           /\ sleep_at' = [sleep_at EXCEPT ![next.id] = {}]
    /\ sw' = [sw EXCEPT ![c] = Running]
    /\ UNCHANGED <<task_id_gen, queue, TICKS, last, picks, mutex, counter, prog>>

SwitchEnd(c) == switch_end(c) /\ UNCHANGED notsched

\* TaskScheduler::release
Release(c, chan) ==
    /\ cur_free(c)
    /\ queue' = release(queue, chan)
    /\ last' = [NoOp EXCEPT !.op = "release", !.before = queue,
                            !.chan = {chan}, !.now = ticks]
    /\ picks' = <<>>
    /\ UNCHANGED <<task_id_gen, running_task, TICKS, saved, sw, sleep_at,
                   mutex, counter, prog>>
    /\ UNCHANGED notsched

\* TaskScheduler::elapse
Elapse(c) ==
    /\ cur_free(c)
    /\ queue' = elapse(queue)
    /\ last' = [NoOp EXCEPT !.op = "elapse", !.before = queue, !.now = ticks]
    /\ picks' = <<>>
    /\ UNCHANGED <<task_id_gen, running_task, TICKS, saved, sw, sleep_at,
                   mutex, counter, prog>>
    /\ UNCHANGED notsched

\* timer_handler, entered where interrupts are enabled: the tick, then the
\* switch that yields, up to the request of the queue lock.  The task
\* interrupted goes on where it was.  (The handler's message to EVENT_QUEUE is
\* not part of the state modelled.)
timer_handler(c, limit) ==
    /\ Interruptible(c)
    /\ TICKS < limit
    /\ TICKS' = TICKS + 1
    /\ switch_enter(c, OpYield, cur_pc(c))
    /\ sleep_at' = MapInsert(sleep_at, cur_id(c), {})
    /\ UNCHANGED <<queue, last, picks, mutex, counter>>
    /\ UNCHANGED notsched

Timer(c) == timer_handler(c, MaxTicks)

(* --------------------------- specification ---------------------------- *)
Init ==
    /\ task_id_gen = 0
    /\ queue = TaskQueue_new
    /\ running_task = [c \in Cpus |-> {}]
    /\ TICKS = 0
    /\ saved = EmptyMap
    /\ sw = [c \in Cpus |-> Running]
    /\ last = NoOp
    /\ sleep_at = EmptyMap
    /\ picks = <<>>
    /\ mutex = [locked |-> FALSE, spin |-> {}]
    /\ counter = 0
    /\ prog = EmptyMap
    /\ thread_state = [c \in AllCpus |-> CpuThreadState_new]
    /\ intr = [c \in AllCpus |-> TRUE]
    /\ iframe = [c \in AllCpus |-> {}]
    /\ scopes = [c \in AllCpus |-> NoScopes]
    /\ contexts = EmptyMap
    /\ panic = {}
    /\ inner = <<>>
    /\ qtask = EmptyMap
    /\ log = NoLog
    /\ vq = VirtQueue_new
    /\ vdev = [seen |-> 0, taken |-> {}]
    /\ vlast = NoTransfer
    /\ req = NoRequest
    /\ dev = NoDevices
    /\ blk = NoRequests
    /\ fm = BitmapFrameManager_new
    /\ ranges = <<>>
    /\ flast = NoAllocation
    /\ heap = KernelAllocator_new
    /\ hlast = NoAlloc
    /\ qlock = [c \in Cpus |-> NoLock]
    /\ array = Array_new
    /\ shadow = NoInserts

Next ==
    \E c \in Cpus :
        \/ \E priority \in Levels : Add(c, priority)
        \/ Yield(c)
        \/ \E t \in Timeouts : Sleep(c, t)
        \/ \E chan \in Chans, timeout \in {{}} \cup {{t} : t \in Timeouts} :
                Block(c, chan, timeout)
        \/ SwitchLocked(c)
        \/ SwitchEnd(c)
        \/ \E chan \in Chans : Release(c, chan)
        \/ Elapse(c)
        \/ Timer(c)

Spec == Init /\ [][Next]_vars

(* ------------------------------- Mutex -------------------------------- *)
\* Mutex::chan: the address of the Mutex
MutexChan == 1

\* A MutexGuard::new that takes the Mutex without marking it.
acquire_unmarked(m) == [m EXCEPT !.spin = {}]

\* MutexGuard::new, `*locked = true; break`: the Mutex is marked and the
\* SpinGuard dropped.
acquire(m) == [m EXCEPT !.locked = TRUE, !.spin = {}]

\* A SpinGuard dropped before block is called.
guard_dropped(m) == [m EXCEPT !.spin = {}]

\* The SpinGuard `locked` moved into block: it stays alive.
guard_moved(m) == m

\* The boot thread adds a task that is to use the Mutex; it adds no task once
\* only the TaskId of its own Task::new_current is left.
Spawn(c, priority) ==
    /\ cur_free(c)
    /\ running_task[c] = {}
    /\ task_id_gen < MaxTasks - 1
    /\ task_id_gen' = task_id_gen + 1
    /\ queue' = enqueue(queue, Task_new(task_id_gen, priority))
    /\ saved' = MapInsert(saved, task_id_gen, TRUE)
    /\ prog' = MapInsert(prog, task_id_gen, Locker)
    /\ last' = [NoOp EXCEPT !.op = "add", !.before = queue, !.now = ticks]
    /\ picks' = <<>>
    /\ sleep_at' = MapInsert(sleep_at, task_id_gen, {})
    /\ UNCHANGED <<running_task, TICKS, sw, mutex, counter>>
    /\ UNCHANGED notsched

\* The task running on c is at pc, outside switch.
at(c, pc) == sw[c].pc = "run" /\ running_task[c] # {} /\ cur_pc(c) = pc

\* MutexGuard::new: mutex.locked.lock() finds the Mutex free and takes it.
MutexAcquire(c) ==
    /\ at(c, "lock")
    /\ mutex.spin = {}
    /\ ~mutex.locked
    /\ mutex' = acquire([mutex EXCEPT !.spin = Some(c)])
    /\ prog' = [prog EXCEPT ![cur_id(c)].pc = "read"]
    /\ UNCHANGED <<task_id_gen, queue, running_task, TICKS, saved, sw, hvars, counter>>
    /\ UNCHANGED notsched

\* MutexGuard::new: mutex.locked.lock() finds the Mutex taken.
MutexFoundLocked(c) ==
    /\ at(c, "lock")
    /\ mutex.spin = {}
    /\ mutex.locked
    /\ mutex' = guard_moved([mutex EXCEPT !.spin = Some(c)])
    /\ prog' = [prog EXCEPT ![cur_id(c)].pc = "block"]
    /\ UNCHANGED <<task_id_gen, queue, running_task, TICKS, saved, sw, hvars, counter>>
    /\ UNCHANGED notsched

\* MutexGuard::new: scheduler().block(mutex.chan(), None, locked), up to the
\* request of the queue lock; the loop goes round once block has returned.
MutexBlock(c) ==
    /\ at(c, "block")
    /\ queue.pending_id_gen < MaxPending
    /\ switch_enter(c, OpBlock(MutexChan, {}), "lock")
    /\ UNCHANGED <<queue, TICKS, hvars, mutex, counter>>
    /\ UNCHANGED notsched

\* `*g += 1`, the read
MutexRead(c) ==
    /\ at(c, "read")
    /\ prog' = [prog EXCEPT ![cur_id(c)].pc = "write", ![cur_id(c)].tmp = counter]
    /\ UNCHANGED <<task_id_gen, queue, running_task, TICKS, saved, sw, hvars,
                   mutex, counter>>
    /\ UNCHANGED notsched

\* `*g += 1`, the write.  The u32 holds at most the number of increments of
\* all the tasks, far from wrapping.
MutexWrite(c) ==
    /\ at(c, "write")
    /\ counter' = prog[cur_id(c)].tmp + 1
    /\ prog' = [prog EXCEPT ![cur_id(c)].pc = "unlock"]
    /\ UNCHANGED <<task_id_gen, queue, running_task, TICKS, saved, sw, hvars, mutex>>
    /\ UNCHANGED notsched

\* Drop for MutexGuard: *self.mutex.locked.lock() = false
MutexUnlock(c) ==
    /\ at(c, "unlock")
    /\ mutex.spin = {}
    /\ mutex' = [mutex EXCEPT !.locked = FALSE]
    /\ prog' = [prog EXCEPT ![cur_id(c)].pc = "release"]
    /\ UNCHANGED <<task_id_gen, queue, running_task, TICKS, saved, sw, hvars, counter>>
    /\ UNCHANGED notsched

\* Drop for MutexGuard: scheduler().release(self.mutex.chan()); then the next
\* turn of the task's loop, or its end.
MutexRelease(c) ==
    /\ at(c, "release")
    /\ queue' = release(queue, MutexChan)
    /\ last' = [NoOp EXCEPT !.op = "release", !.before = queue,
                            !.chan = {MutexChan}, !.now = ticks]
    /\ picks' = <<>>
    /\ prog' = [prog EXCEPT
                  ![cur_id(c)].i = @ + 1,
                  ![cur_id(c)].pc = IF prog[cur_id(c)].i + 1 = Increments
                                    THEN "done" ELSE "lock"]
    /\ UNCHANGED <<task_id_gen, running_task, TICKS, saved, sw, sleep_at,
                   mutex, counter>>
    /\ UNCHANGED notsched

TimerPreempt(c) == timer_handler(c, MaxPreempt)

NextMutex ==
    \E c \in Cpus :
        \/ \E priority \in Levels : Spawn(c, priority)
        \/ MutexAcquire(c)
        \/ MutexFoundLocked(c)
        \/ MutexBlock(c)
        \/ MutexRead(c)
        \/ MutexWrite(c)
        \/ MutexUnlock(c)
        \/ MutexRelease(c)
        \/ TimerPreempt(c)
        \/ SwitchLocked(c)
        \/ SwitchEnd(c)

SpecMutex == Init /\ [][NextMutex]_vars

(* ------------------------- claims: TaskQueue -------------------------- *)
IsPrefix(s, t) == Len(s) <= Len(t) /\ SubSeq(t, 1, Len(s)) = s
SeqRange(s) == {s[i] : i \in 1..Len(s)}

\* The tasks in the runnable FIFOs of q.
FifoTasks(q) == UNION {SeqRange(q.runnable_tasks[l]) : l \in Levels}

\* The positions (level, index) of the runnable FIFOs of q.
FifoPositions(q) ==
    UNION {{<<l, i>> : i \in 1..Len(q.runnable_tasks[l])} : l \in Levels}

\* In how many places the task with this id is.
Places(id) ==
    Cardinality({c \in Cpus :
        running_task[c] # {} /\ Get(running_task[c]).id = id})
    + Cardinality({x \in FifoPositions(queue) :
        queue.runnable_tasks[x[1]][x[2]].id = id})
    + Cardinality({p \in DOMAIN queue.pending_tasks :
        queue.pending_tasks[p].id = id})

NoCpuInSwitch == \A c \in Cpus : sw[c].pc = "run"

\* C3: whenever no CPU is inside switch, every task created so far (by add, or
\* by Task::new_current at the first switch of a CPU) is in exactly one place:
\* the running_task of a CPU, one runnable FIFO, which is that of its priority,
\* or pending_tasks.
C3_ExactlyOnePlace ==
    NoCpuInSwitch =>
        /\ \A id \in 0..(task_id_gen - 1) : Places(id) = 1
        /\ \A x \in FifoPositions(queue) :
               queue.runnable_tasks[x[1]][x[2]].priority = x[1]

\* A state outside switch with a task made by new_current, a task running, a
\* task runnable and a task pending.
C3_Witness ==
    /\ NoCpuInSwitch
    /\ task_id_gen = MaxTasks
    /\ \E c \in Cpus : running_task[c] # {}
    /\ FifoTasks(queue) # {}
    /\ DOMAIN queue.pending_tasks # {}

\* C4: dequeue(current, decision) returns the front task of the highest
\* non-empty FIFO among the levels >= m, m being current's priority for Yield
\* and 0 for Blocked and Sleep; when all those FIFOs are empty it returns
\* current and leaves the TaskQueue as it was.
C4_DequeueChoice ==
    last.op = "dequeue" =>
        LET b == last.before
            cur == Get(last.current)
            m == IF Get(last.switch).kind = "Yield" THEN cur.priority ELSE 0
            L == {l \in Levels : l >= m /\ b.runnable_tasks[l] # <<>>}
        IN  IF L = {}
            THEN Get(last.chosen) = cur /\ queue = b
            ELSE \E l \in L :
                    /\ \A k \in L : k <= l
                    /\ Get(last.chosen) = Head(b.runnable_tasks[l])

\* A dequeue that found tasks at two levels to choose from, and took one.
C4_Witness ==
    /\ last.op = "dequeue"
    /\ Cardinality({l \in Levels : last.before.runnable_tasks[l] # <<>>}) >= 2
    /\ last.chosen # last.current

\* C5: at every scheduling decision the task chosen has a priority at least
\* that of every task that is runnable, or running and only yielding, at that
\* moment: no task of a lower level is chosen.
C5_StrictPriority ==
    last.op = "dequeue" =>
        LET competing ==
                FifoTasks(last.before) \cup
                (IF Get(last.switch).kind = "Yield" THEN last.current ELSE {})
        IN  \A t \in competing : t.priority <= Get(last.chosen).priority

\* Three yields in a row of the same task while a task of a lower level is
\* runnable.
C5_Witness ==
    /\ Len(picks) >= 3
    /\ \A i \in 1..Len(picks) : picks[i] = picks[1]
    /\ \E t \in FifoTasks(queue) :
           t.id # picks[1] /\ t.priority < Get(last.chosen).priority

\* The tasks at the highest occupied level: runnable, running, or held by a
\* CPU inside switch.
Occupying ==
    FifoTasks(queue) \cup UNION {running_task[c] \cup sw[c].cpu_task : c \in Cpus}
TopTasks == {t \in Occupying : \A u \in Occupying : u.priority <= t.priority}

\* C6: a task leaves a runnable FIFO only from the front, as the task chosen,
\* and enters only at the back, so that within a level tasks are chosen in the
\* order they entered; and k tasks at the highest occupied level that only
\* yield are each chosen once in every k consecutive decisions.
C6_FifoOrder ==
    /\ \A l \in Levels :
        LET old == last.before.runnable_tasks[l]
            new == queue.runnable_tasks[l]
        IN  last.op # "none" =>
               \/ IsPrefix(old, new)
               \/ /\ old # <<>>
                  /\ IsPrefix(Tail(old), new)
                  /\ last.op = "dequeue"
                  /\ Get(last.chosen) = Head(old)
    /\ LET k == Cardinality(TopTasks)
       IN  (picks # <<>> /\ Len(picks) >= k) =>
               {picks[i] : i \in (Len(picks) - k + 1)..Len(picks)}
                   = {t.id : t \in TopTasks}

\* Three tasks at the highest level and three decisions among them.
C6_Witness ==
    /\ Cardinality(TopTasks) = 3
    /\ Len(picks) >= 3

\* The original C7: a task that called sleep(t) at tick n is not chosen to run,
\* and does not return from sleep, before the tick counter is n + t.
C7_NoEarlyReturn ==
    \A c \in Cpus :
        (sw[c].pc = "chosen" /\ sleep_at[Get(sw[c].cpu_task).id] # {}) =>
            LET call == Get(sleep_at[Get(sw[c].cpu_task).id])
            IN  ticks >= call[1] + call[2]

\* C7 as amended: a task that sleep(t) switched out at tick n is not chosen to
\* run again before the tick counter is n + t; a sleep that finds every runnable
\* FIFO empty returns at once and leaves the TaskQueue as it was.
C7_NoEarlyWake ==
    \A c \in Cpus :
        (sw[c].pc = "chosen" /\ sleep_at[Get(sw[c].cpu_task).id] # {}) =>
            LET call == Get(sleep_at[Get(sw[c].cpu_task).id])
            IN  IF sw[c].cpu_task # sw[c].current
                THEN ticks >= call[1] + call[2]
                ELSE /\ FifoTasks(last.before) = {}
                     /\ queue = last.before

\* A task that slept for at least one tick is chosen to run again.
C7_Witness ==
    \E c \in Cpus :
        /\ sw[c].pc = "chosen"
        /\ sw[c].cpu_task # sw[c].current
        /\ sleep_at[Get(sw[c].cpu_task).id] # {}
        /\ Get(sleep_at[Get(sw[c].cpu_task).id])[2] >= 1

\* The PendingIds listed under chan in q whose task is pending.
BlockedOn(q, chan) ==
    IF chan \in DOMAIN q.blocks
    THEN SeqRange(q.blocks[chan]) \cap DOMAIN q.pending_tasks
    ELSE {}

\* The tasks of the PendingIds in ids, in the order the ids were issued.
RECURSIVE InBlockOrder(_, _)
InBlockOrder(q, ids) ==
    IF ids = {} THEN <<>>
    ELSE LET id == CHOOSE i \in ids : \A j \in ids : i <= j
         IN  <<q.pending_tasks[id]>> \o InBlockOrder(q, ids \ {id})

OfLevel(tasks, l) == SelectSeq(tasks, LAMBDA t : t.priority = l)

\* What release(chan) does to the tasks pending on chan.
ReleaseMovesTasks(b, chan) ==
    /\ chan \notin DOMAIN queue.blocks
    /\ \A l \in Levels :
           queue.runnable_tasks[l] =
               b.runnable_tasks[l] \o OfLevel(InBlockOrder(b, BlockedOn(b, chan)), l)
    /\ queue.pending_tasks =
           [p \in (DOMAIN b.pending_tasks) \ BlockedOn(b, chan) |-> b.pending_tasks[p]]

\* The original C8: after release(ch) blocks has no entry for ch and the tasks
\* pending on ch are at the back of the FIFOs of their priorities in the order
\* they blocked; with no task blocked on ch the TaskQueue is unchanged.
C8_ReleaseAsClaimed ==
    last.op = "release" =>
        /\ ReleaseMovesTasks(last.before, Get(last.chan))
        /\ BlockedOn(last.before, Get(last.chan)) = {} => queue = last.before

\* C8 as amended: with no task blocked on ch, release(ch) leaves the TaskQueue
\* unchanged but for the entry of blocks for ch, which it drops when elapse has
\* left one that is empty.
C8_Release ==
    last.op = "release" =>
        /\ ReleaseMovesTasks(last.before, Get(last.chan))
        /\ BlockedOn(last.before, Get(last.chan)) = {} =>
               queue = [last.before EXCEPT !.blocks = MapRemove(@, Get(last.chan))]
        /\ queue.timeouts = last.before.timeouts
        /\ queue.pending_id_gen = last.before.pending_id_gen

\* A release of a channel two tasks are blocked on.
C8_Witness ==
    /\ last.op = "release"
    /\ Cardinality(BlockedOn(last.before, Get(last.chan))) >= 2

\* C9: after elapse() at tick now the heap holds no entry with deadline <= now,
\* every task that was pending with such an entry is in the runnable FIFO of its
\* priority, and every entry with deadline > now is still in the heap, its task
\* still pending.
C9_Elapse ==
    last.op = "elapse" =>
        LET b == last.before
        IN  /\ \A e \in queue.timeouts : e[1] > last.now
            /\ \A e \in b.timeouts :
                  (e[1] <= last.now /\ e[2] \in DOMAIN b.pending_tasks) =>
                      /\ e[2] \notin DOMAIN queue.pending_tasks
                      /\ b.pending_tasks[e[2]] \in
                            SeqRange(queue.runnable_tasks[b.pending_tasks[e[2]].priority])
            /\ \A e \in b.timeouts :
                  e[1] > last.now =>
                      /\ e \in queue.timeouts
                      /\ e[2] \in DOMAIN b.pending_tasks =>
                            /\ e[2] \in DOMAIN queue.pending_tasks
                            /\ queue.pending_tasks[e[2]] = b.pending_tasks[e[2]]

\* An elapse that found an expired entry and an entry still to expire, both
\* with their task pending.
C9_Witness ==
    /\ last.op = "elapse"
    /\ \E e \in last.before.timeouts :
           e[1] <= last.now /\ e[2] \in DOMAIN last.before.pending_tasks
    /\ \E e \in last.before.timeouts :
           e[1] > last.now /\ e[2] \in DOMAIN last.before.pending_tasks

\* C10: every PendingId listed under a channel in blocks is a key of
\* pending_tasks.
C10_BlocksArePending ==
    \A chan \in DOMAIN queue.blocks :
        SeqRange(queue.blocks[chan]) \subseteq DOMAIN queue.pending_tasks

\* A task blocked with a timeout was woken by elapse while another task is
\* still listed under the same channel.
C10_Witness ==
    /\ last.op = "elapse"
    /\ \E chan \in DOMAIN queue.blocks :
           /\ queue.blocks[chan] # <<>>
           /\ Len(last.before.blocks[chan]) > Len(queue.blocks[chan])

\* C35: a timer interrupt adds exactly one to the tick counter, and its handler
\* has elapse run at the new tick before it yields: when the handler asks for
\* the queue lock of its yield, no entry of the heap has a deadline at or
\* before the counter, so that no task is pending past its deadline.
C35_TickElapses ==
    [][TICKS' # TICKS =>
        /\ TICKS' = TICKS + 1
        /\ \A e \in queue'.timeouts : e[1] > TICKS']_vars

(* --------------------------- claims: Mutex ---------------------------- *)
\* The tasks that use the Mutex, those among them that hold a MutexGuard (from
\* `*locked = true` to `*locked = false`), and those whose loop has ended.
Lockers == {id \in DOMAIN prog : prog[id].pc # "free"}
Holders == {id \in Lockers : prog[id].pc \in {"read", "write", "unlock"}}
Finished == {id \in Lockers : prog[id].pc = "done"}

\* The increments the tasks in ids have completed: written, if not yet counted
\* in i.
RECURSIVE Completed(_)
Completed(ids) ==
    IF ids = {} THEN 0
    ELSE LET id == CHOOSE x \in ids : TRUE
         IN  prog[id].i
             + (IF prog[id].pc \in {"unlock", "release"} THEN 1 ELSE 0)
             + Completed(ids \ {id})

\* C1: at most one task holds a MutexGuard at any time, and the Mutex is marked
\* locked while one does; the counter is the number of increments completed, so
\* that N tasks of K increments each leave it at N * K.
C1_MutualExclusion ==
    /\ Cardinality(Holders) <= 1
    /\ Holders # {} => mutex.locked
    /\ counter = Completed(Lockers)
    /\ Finished = Lockers => counter = Cardinality(Lockers) * Increments

\* Two tasks have completed their increments, and one of them had to block on
\* the Mutex on the way.
C1_Witness ==
    /\ Cardinality(Lockers) >= 2
    /\ Finished = Lockers
    /\ queue.pending_id_gen >= 1
    /\ counter = Cardinality(Lockers) * Increments

\* C2: a task that found the Mutex locked holds the SpinGuard of `locked` until,
\* under the queue lock, it is registered in blocks under the channel of the
\* Mutex; no state has the Mutex unlocked, a task pending, and no task between
\* the unlock and the release of its guard drop; and after that release no task
\* is left pending.
C2_NoLostWakeup ==
    /\ \A c \in Cpus :
          (sw[c].pc = "taken" /\ Get(sw[c].op).guard) =>
              mutex.locked /\ mutex.spin = Some(c)
    /\ \A p \in DOMAIN queue.pending_tasks : p \in BlockedOn(queue, MutexChan)
    /\ ~(/\ ~mutex.locked
          /\ DOMAIN queue.pending_tasks # {}
          /\ \A id \in Lockers : prog[id].pc # "release")
    /\ last.op = "release" => DOMAIN queue.pending_tasks = {}

\* The release of a guard drop made a task runnable that had found the Mutex
\* locked.
C2_Witness ==
    /\ last.op = "release"
    /\ BlockedOn(last.before, MutexChan) # {}
    /\ \E id \in Lockers : prog[id].pc \in {"lock", "done"} /\ prog[id].i >= 1

(* ---------------------- claims: timeouts and CLI ---------------------- *)
\* The PendingId of heap entry e is listed in blocks under the channel e carries.
ListedInBlocks(q, e) ==
    /\ Get(e[3]) \in DOMAIN q.blocks
    /\ e[2] \in SeqRange(q.blocks[Get(e[3])])

\* The original C11: every entry of the timeout heap that carries a channel ch
\* has its PendingId listed in blocks[ch].
C11_HeapEntriesListed ==
    \A e \in queue.timeouts : e[3] # {} => ListedInBlocks(queue, e)

\* C11 as amended: every entry of the timeout heap that carries a channel ch
\* and whose PendingId is still a key of pending_tasks has that PendingId
\* listed in blocks[ch]; the entry of a task that release(ch) woke stays in the
\* heap, listed nowhere, until elapse pops it.
C11_PendingHeapEntriesListed ==
    \A e \in queue.timeouts :
        e[3] # {} =>
            IF e[2] \in DOMAIN queue.pending_tasks
            THEN ListedInBlocks(queue, e)
            ELSE \A chan \in DOMAIN queue.blocks : e[2] \notin SeqRange(queue.blocks[chan])

\* The heap holds the entry of a task still blocked with a timeout and the
\* entry of a task that release woke before its deadline.
C11_Witness ==
    /\ \E e \in queue.timeouts :
           e[3] # {} /\ e[2] \in DOMAIN queue.pending_tasks /\ ListedInBlocks(queue, e)
    /\ \E e \in queue.timeouts :
           e[3] # {} /\ e[2] \notin DOMAIN queue.pending_tasks

\* The latest TaskQueue operation was a dequeue that switched out a task
\* blocking with a timeout of 0.
BlockedWithZero ==
    /\ last.op = "dequeue"
    /\ Get(last.switch).kind = "Blocked"
    /\ Get(last.switch).timeout = Some(0)
    /\ last.chosen # last.current

Expired(q, now) == {e \in q.timeouts : e[1] <= now}
ExpiredPending(q, now) == {e[2] : e \in Expired(q, now)} \cap DOMAIN q.pending_tasks

\* From b to the queue of now the tasks of the PendingIds in woken, and no
\* others, have left pending_tasks, each for one more place at the back of the
\* FIFO of its priority.
MovedOnce(b, woken) ==
    /\ queue.pending_tasks = [p \in (DOMAIN b.pending_tasks) \ woken |-> b.pending_tasks[p]]
    /\ \A l \in Levels :
           /\ IsPrefix(b.runnable_tasks[l], queue.runnable_tasks[l])
           /\ Len(queue.runnable_tasks[l]) = Len(b.runnable_tasks[l])
                + Cardinality({p \in woken : b.pending_tasks[p].priority = l})
           /\ \A p \in woken :
                  b.pending_tasks[p].priority = l =>
                      b.pending_tasks[p] \in SeqRange(queue.runnable_tasks[l])

\* C34: a task blocked with a timeout is appended to a runnable FIFO once per
\* block, by the release of its channel or by the expiry of its deadline,
\* whichever comes first.  A PendingId is never issued twice, so the later
\* event finds no task under it: elapse popping the stale heap entry moves no
\* task and takes no other PendingId out of blocks, and release moves only the
\* tasks still listed and pending, leaving every other channel alone.
C34_WokenOnce ==
    /\ \A p \in DOMAIN queue.pending_tasks \cup {e[2] : e \in queue.timeouts}
                \cup UNION {SeqRange(queue.blocks[ch]) : ch \in DOMAIN queue.blocks} :
           p < queue.pending_id_gen
    /\ \A e, f \in queue.timeouts : e[2] = f[2] => e = f
    /\ \A x, y \in FifoPositions(queue) :
           queue.runnable_tasks[x[1]][x[2]].id = queue.runnable_tasks[y[1]][y[2]].id => x = y
    /\ \A p \in DOMAIN queue.pending_tasks : queue.pending_tasks[p] \notin FifoTasks(queue)
    /\ last.op = "elapse" =>
          LET b == last.before
          IN  /\ MovedOnce(b, ExpiredPending(b, last.now))
              /\ DOMAIN queue.blocks = DOMAIN b.blocks
              /\ \A ch \in DOMAIN b.blocks :
                     queue.blocks[ch] =
                        SelectSeq(b.blocks[ch],
                                  LAMBDA p : <<p, ch>> \notin
                                      {<<e[2], Get(e[3])>> : e \in {x \in Expired(b, last.now) : x[3] # {}}})
              /\ queue.timeouts = b.timeouts \ Expired(b, last.now)
    /\ last.op = "release" =>
          LET b == last.before
          IN  /\ MovedOnce(b, BlockedOn(b, Get(last.chan)))
              /\ \A ch \in (DOMAIN b.blocks) \ {Get(last.chan)} :
                     ch \in DOMAIN queue.blocks /\ queue.blocks[ch] = b.blocks[ch]
              /\ queue.timeouts = b.timeouts

\* An elapse that popped the stale entry of a task release had woken, while a
\* task blocked on the same channel under the next PendingId, its deadline not
\* yet reached, stayed blocked.
C34_Witness ==
    /\ last.op = "elapse"
    /\ \E e \in Expired(last.before, last.now) :
           /\ e[3] # {}
           /\ e[2] \notin DOMAIN last.before.pending_tasks
           /\ \E p \in BlockedOn(queue, Get(e[3])) :
                  /\ p > e[2]
                  /\ \E f \in queue.timeouts : f[2] = p /\ f[3] = e[3]

\* A release of a channel after elapse has woken, at its deadline, the task
\* that was blocked on it: no task is moved.
C34_WitnessLateRelease ==
    /\ last.op = "release"
    /\ Get(last.chan) \in DOMAIN last.before.blocks
    /\ last.before.blocks[Get(last.chan)] = <<>>
    /\ FifoTasks(queue) # {}

(* -------------------------------- Cli --------------------------------- *)
\* The deepest nesting of Cli values explored.
MaxCli == 3

\* A Cli::new that records zcli at every nesting depth.
Cli_new_recording(ts, enabled) ==
    [thread_state |-> [ncli |-> ts.ncli + 1, zcli |-> ~enabled], intr |-> FALSE]

\* Cli::new on a CPU whose thread_state is ts and whose interrupts are enabled
\* or not: the thread_state and the interrupt flag it leaves.  (ncli is a u32
\* that stays far from wrapping.)
Cli_new(ts, enabled) ==
    LET cli == ~enabled
    IN  [thread_state |-> [ncli |-> ts.ncli + 1,
                           zcli |-> IF ts.ncli = 0 THEN cli ELSE ts.zcli],
         intr |-> FALSE]

\* Drop for Cli: the assertion on the interrupt flag, then the decrement and
\* the sti.  A decrement of ncli = 0 overflows.
Cli_drop(ts, enabled) ==
    IF enabled
    THEN [thread_state |-> ts, intr |-> enabled,
          panic |-> Some("Inconsistent interrupt flag")]
    ELSE IF ts.ncli = 0
    THEN [thread_state |-> ts, intr |-> enabled,
          panic |-> Some("attempt to subtract with overflow")]
    ELSE LET ncli == ts.ncli - 1
             sti == ncli = 0 /\ ~ts.zcli
         IN  [thread_state |-> [ncli |-> ncli, zcli |-> ts.zcli],
              intr |-> IF sti THEN TRUE ELSE enabled,
              panic |-> {}]

\* The history of Cli values after a Cli::new and after a drop.
scopes_new(sc, enabled) ==
    LET live == Append(sc.live, enabled)
    IN  [live |-> live,
         deepest |-> IF sc.live = <<>> THEN 1
                     ELSE IF Len(live) > sc.deepest THEN Len(live) ELSE sc.deepest,
         closed |-> {}]
scopes_drop(sc) ==
    [live |-> SubSeq(sc.live, 1, Len(sc.live) - 1),
     deepest |-> sc.deepest,
     closed |-> IF Len(sc.live) = 1 THEN {sc.live[1]} ELSE {}]

\* The code running on c makes a Cli value: Cli::new, Spin::lock.
CliNew(c) ==
    /\ panic = {}
    /\ Len(scopes[c].live) < MaxCli
    /\ LET r == Cli_new(thread_state[c], intr[c])
       IN  /\ thread_state' = [thread_state EXCEPT ![c] = r.thread_state]
           /\ intr' = [intr EXCEPT ![c] = r.intr]
    /\ scopes' = [scopes EXCEPT ![c] = scopes_new(scopes[c], intr[c])]
    /\ UNCHANGED <<iframe, contexts, panic>>
    /\ UNCHANGED notcli

\* The code running on c drops the Cli value it made last.
CliDrop(c) ==
    /\ panic = {}
    /\ scopes[c].live # <<>>
    /\ LET r == Cli_drop(thread_state[c], intr[c])
       IN  /\ thread_state' = [thread_state EXCEPT ![c] = r.thread_state]
           /\ intr' = [intr EXCEPT ![c] = r.intr]
           /\ panic' = r.panic
    /\ scopes' = [scopes EXCEPT ![c] = scopes_drop(scopes[c])]
    /\ UNCHANGED <<iframe, contexts>>
    /\ UNCHANGED notcli

\* An interrupt is delivered to c through its interrupt gate: the interrupt
\* flag goes to the InterruptStackFrame and is cleared.
InterruptEnter(c) ==
    /\ panic = {}
    /\ intr[c]
    /\ iframe[c] = {}
    /\ iframe' = [iframe EXCEPT ![c] = {intr[c]}]
    /\ intr' = [intr EXCEPT ![c] = FALSE]
    /\ scopes' = [scopes EXCEPT ![c].closed = {}]
    /\ UNCHANGED <<thread_state, contexts, panic>>
    /\ UNCHANGED notcli

\* The handler returns, every Cli value it made dropped: iretq puts the flag
\* of the InterruptStackFrame back.
InterruptReturn(c) ==
    /\ panic = {}
    /\ iframe[c] # {}
    /\ scopes[c].live = <<>>
    /\ intr' = [intr EXCEPT ![c] = Get(iframe[c])]
    /\ iframe' = [iframe EXCEPT ![c] = {}]
    /\ scopes' = [scopes EXCEPT ![c].closed = {}]
    /\ UNCHANGED <<thread_state, contexts, panic>>
    /\ UNCHANGED notcli

NextCli ==
    \E c \in AllCpus :
        \/ CliNew(c)
        \/ CliDrop(c)
        \/ InterruptEnter(c)
        \/ InterruptReturn(c)

SpecCli == Init /\ [][NextCli]_vars

\* C13: over every properly nested sequence of Cli::new and drop on one CPU,
\* ncli is the number of Cli values alive, interrupts are disabled whenever
\* ncli > 0, the assertion of drop never fails, and the drop that brings ncli
\* to 0 leaves interrupts enabled exactly if they were enabled before the
\* outermost Cli::new.
C13_CliNesting ==
    /\ panic = {}
    /\ \A c \in AllCpus :
        /\ thread_state[c].ncli = Len(scopes[c].live)
        /\ thread_state[c].ncli > 0 => ~intr[c]
        /\ scopes[c].closed # {} =>
            /\ thread_state[c].ncli = 0
            /\ intr[c] = Get(scopes[c].closed)

\* Nested Cli values have been dropped down to none, on one CPU where
\* interrupts were enabled before and on one, inside a handler, where they
\* were not.
C13_Witness ==
    /\ scopes["bsp"].closed = {TRUE} /\ scopes["bsp"].deepest >= 2
    /\ scopes["ap"].closed = {FALSE} /\ scopes["ap"].deepest >= 2

(* ------------------- switch and the Cli of its CPU -------------------- *)
\* Context::new for a task: rip is task_init and rflags has INTERRUPT_FLAG.
\* rflags is the interrupt flag of the Context; iframe and scopes are what the
\* stack of the task holds.
Context_new == [rip |-> "task_init", rflags |-> TRUE, iframe |-> {}, scopes |-> NoScopes]

\* switch_context(next, current) writes the registers, rflags among them, to
\* current and returns into next; the task written resumes inside switch.
Context_saved(c) ==
    [rip |-> "switch", rflags |-> intr[c], iframe |-> iframe[c], scopes |-> scopes[c]]

\* The entry of switch from a caller that holds other_cli Cli values of its
\* own and has made them just before: Cli::new, then the assertion on ncli,
\* then switch_enter.  A failed assertion panics and the CPU halts.
cli_switch_enter(c, op, resume, other_cli, enabled) ==
    LET held == IF other_cli = 1 THEN Cli_new(thread_state[c], enabled)
                ELSE [thread_state |-> thread_state[c], intr |-> enabled]
        sc == IF other_cli = 1 THEN scopes_new(scopes[c], enabled) ELSE scopes[c]
        cli == Cli_new(held.thread_state, held.intr)
    IN  /\ panic = {}
        /\ thread_state' = [thread_state EXCEPT ![c] = cli.thread_state]
        /\ intr' = [intr EXCEPT ![c] = cli.intr]
        /\ scopes' = [scopes EXCEPT ![c] = scopes_new(sc, held.intr)]
        /\ IF cli.thread_state.ncli = 1 + other_cli
           THEN /\ switch_enter(c, op, resume)
                /\ sleep_at' = MapInsert(sleep_at, cur_id(c),
                        IF op.name = "sleep" THEN Some(<<ticks, op.ticks>>) ELSE {})
                /\ panic' = panic
           ELSE /\ panic' = Some("assertion failed: ncli == 1 + other_cli")
                /\ UNCHANGED <<task_id_gen, saved, prog, running_task, sw, sleep_at>>
        /\ UNCHANGED <<contexts, notswitch>>

\* TaskScheduler::add with the Cli of the queue lock
CliAdd(c, priority) ==
    /\ panic = {}
    /\ add(c, priority)
    /\ contexts' = MapInsert(contexts, task_id_gen, Context_new)
    /\ LET lock == Cli_new(thread_state[c], intr[c])
           unlock == Cli_drop(lock.thread_state, lock.intr)
       IN  /\ thread_state' = [thread_state EXCEPT ![c] = unlock.thread_state]
           /\ intr' = [intr EXCEPT ![c] = unlock.intr]
           /\ panic' = unlock.panic
    /\ UNCHANGED <<iframe, scopes, notswitch>>

\* TaskScheduler::yield, up to the request of the queue lock
CliYield(c) ==
    /\ cur_free(c)
    /\ cli_switch_enter(c, OpYield, "free", 0, intr[c])
    /\ UNCHANGED <<queue, TICKS, last, picks, mutex, counter, iframe>>

\* TaskScheduler::sleep, up to the request of the queue lock
CliSleep(c, t) ==
    /\ cur_free(c)
    /\ queue.pending_id_gen < MaxPending
    /\ cli_switch_enter(c, OpSleep(t), "free", 0, intr[c])
    /\ UNCHANGED <<queue, TICKS, last, picks, mutex, counter, iframe>>

\* A caller locks a Spin and hands its guard to TaskScheduler::block, up to
\* the request of the queue lock.
CliBlock(c, chan, timeout) ==
    /\ cur_free(c)
    /\ queue.pending_id_gen < MaxPending
    /\ mutex.spin = {}
    /\ mutex' = [mutex EXCEPT !.spin = Some(c)]
    /\ cli_switch_enter(c, OpBlock(chan, timeout), "free", 1, intr[c])
    /\ UNCHANGED <<queue, TICKS, last, picks, counter, iframe>>

\* timer_handler, delivered where the interrupt flag is set: the gate clears
\* the flag, then the tick and the switch that yields.
CliTimer(c) ==
    /\ sw[c].pc = "run"
    /\ intr[c]
    /\ iframe[c] = {}
    /\ TICKS < MaxTicks
    /\ TICKS' = TICKS + 1
    /\ iframe' = [iframe EXCEPT ![c] = {intr[c]}]
    /\ cli_switch_enter(c, OpYield, cur_pc(c), 0, FALSE)
    /\ UNCHANGED <<queue, last, picks, mutex, counter>>

\* The part of switch that holds the queue lock, with the Cli of the lock and
\* the drop of the guard that block handed over.
CliSwitchLocked(c) ==
    /\ panic = {}
    /\ switch_locked(c)
    /\ LET op == Get(sw[c].op)
           lock == Cli_new(thread_state[c], intr[c])
           guard == IF op.guard THEN Cli_drop(lock.thread_state, lock.intr)
                    ELSE [thread_state |-> lock.thread_state, intr |-> lock.intr,
                          panic |-> {}]
           unlock == Cli_drop(guard.thread_state, guard.intr)
       IN  /\ thread_state' = [thread_state EXCEPT ![c] = unlock.thread_state]
           /\ intr' = [intr EXCEPT ![c] = unlock.intr]
           /\ panic' = guard.panic \cup unlock.panic
           /\ scopes' = IF op.guard
                        THEN [scopes EXCEPT ![c] = [scopes_drop(scopes[c])
                                                    EXCEPT !.closed = {}]]
                        ELSE scopes
    /\ UNCHANGED <<iframe, contexts, notswitch>>

\* The end of switch: Context::switch saves the rflags and the stack of the
\* task switched out and loads those of the next one.  A task that runs for
\* the first time starts in task_init; any other resumes in switch, drops the
\* Cli it made there and, inside timer_handler, returns from the interrupt.
CliSwitchEnd(c) ==
    /\ panic = {}
    /\ switch_end(c)
    /\ LET next == Get(sw[c].cpu_task)
           current == Get(sw[c].current)
           loaded == IF current # next THEN contexts[next.id] ELSE Context_saved(c)
           cli == Cli_drop(thread_state[c], loaded.rflags)
           iret == cli.panic = {} /\ loaded.iframe # {}
       IN  /\ contexts' = IF current # next
                          THEN MapInsert(contexts, current.id, Context_saved(c))
                          ELSE contexts
           /\ IF loaded.rip = "task_init"
              THEN /\ intr' = [intr EXCEPT ![c] = loaded.rflags]
                   /\ iframe' = [iframe EXCEPT ![c] = loaded.iframe]
                   /\ scopes' = [scopes EXCEPT ![c] = loaded.scopes]
                   /\ UNCHANGED <<thread_state, panic>>
              ELSE /\ thread_state' = [thread_state EXCEPT ![c] = cli.thread_state]
                   /\ panic' = cli.panic
                   /\ intr' = [intr EXCEPT ![c] =
                                IF iret THEN Get(loaded.iframe) ELSE cli.intr]
                   /\ iframe' = [iframe EXCEPT ![c] =
                                IF iret THEN {} ELSE loaded.iframe]
                   /\ scopes' = [scopes EXCEPT ![c] =
                                IF cli.panic = {} THEN scopes_drop(loaded.scopes)
                                ELSE loaded.scopes]
    /\ UNCHANGED notswitch

NextSwitch ==
    \E c \in Cpus :
        \/ \E priority \in Levels : CliAdd(c, priority)
        \/ CliYield(c)
        \/ \E t \in Timeouts : CliSleep(c, t)
        \/ \E chan \in Chans, timeout \in {{}} \cup {{t} : t \in Timeouts} :
                CliBlock(c, chan, timeout)
        \/ CliTimer(c)
        \/ CliSwitchLocked(c)
        \/ CliSwitchEnd(c)

SpecSwitch == Init /\ [][NextSwitch]_vars

\* C14: the assertion at the entry of switch holds in every execution: ncli
\* is 1 for a caller that holds no spin lock and 2 for a caller that hands
\* its one guard to block.
C14_SwitchEntryAssertion == panic # Some("assertion failed: ncli == 1 + other_cli")

\* C38: the ncli and zcli of a CPU are those of the Cli values of the task
\* that runs on it, so that the drop that ends the Cli of a task leaves the
\* interrupts as they were when that task made it, whatever ran in between:
\* outside switch ncli counts the Cli values alive on the stack of the running
\* task, and a task back from yield, sleep or block outside a handler has the
\* interrupts it called with.
C38_OwnCliScope ==
    \A c \in Cpus :
        sw[c].pc = "run" =>
            /\ thread_state[c].ncli = Len(scopes[c].live)
            /\ (scopes[c].closed # {} /\ iframe[c] = {}) => intr[c] = Get(scopes[c].closed)

(* ----------------------------- sync Queue ----------------------------- *)
\* MpMcQueue::enqueue and MpMcQueue::dequeue on the items q holds
inner_enqueue(q, item) ==
    IF Len(q) < QueueN THEN [ok |-> TRUE, q |-> Append(q, item)]
    ELSE [ok |-> FALSE, q |-> q]
inner_dequeue(q) ==
    IF q # <<>> THEN [item |-> {Head(q)}, q |-> Tail(q)]
    ELSE [item |-> {}, q |-> q]

\* The program of a task that calls the Queue QueueItems times.
Caller == [pc |-> "call", i |-> 0, tmp |-> 0]

\* The call a task is about to make: kind is "producer" or "consumer", method
\* is "block" (enqueue, dequeue), "timeout" (enqueue_timeout,
\* dequeue_timeout) or "try" (try_enqueue, try_dequeue).  item is the item in
\* the hands of the call, ret what the closure handed to switch returned;
\* called, rel and pended are history: the ticks and the releases of
\* full_chan at the call, and whether switch has put the task to pending.
NewCall(kind, method, id, n) ==
    [kind |-> kind, method |-> method,
     item |-> IF kind = "producer" THEN {<<id, n>>} ELSE {},
     ret |-> "none", called |-> ticks, rel |-> log.rel_full, pended |-> FALSE]

\* The call returns: the task goes on to its next call, or is done.
next_call(id) ==
    /\ prog' = [prog EXCEPT ![id].i = @ + 1,
                            ![id].pc = IF prog[id].i + 1 = QueueItems
                                       THEN "done" ELSE "call"]
    /\ qtask' = [qtask EXCEPT ![id] =
                    NewCall(qtask[id].kind, qtask[id].method, id, prog[id].i + 2)]

\* What the log holds of a call that handed its item back.
Failure(t) ==
    [item |-> Get(t.item), method |-> t.method,
     called |-> t.called, returned |-> ticks,
     pended |-> t.pended, released |-> log.rel_full > t.rel,
     full |-> Len(inner) = QueueN]

\* Where a call goes on once switch has returned ret.  enqueue and dequeue
\* loop on Err and None; enqueue_timeout and dequeue_timeout try once more.
after_switch_retrying(ret, method) ==
    IF method = "block" THEN (IF ret = "ok" THEN "release" ELSE "call") ELSE "retry"
after_switch(ret, method) ==
    IF ret = "ok" THEN "release"
    ELSE IF method = "block" THEN "call"
    ELSE "retry"

\* What the closure of a call returns to switch, and through it to the call:
\* Ok or Some if its try succeeded and the switch is cancelled.
closure_ret_lost(switch) == "err"
closure_ret(switch) == IF switch = {} THEN "ok" ELSE "err"

\* The channel a call that succeeded releases.
release_chan_own(kind) == IF kind = "producer" THEN FullChan ELSE EmptyChan
release_chan(kind) == IF kind = "producer" THEN EmptyChan ELSE FullChan

\* The boot thread adds a task that is to call the Queue.
QueueSpawn(c, priority, kind, method) ==
    /\ cur_free(c)
    /\ running_task[c] = {}
    /\ task_id_gen < MaxTasks - 1
    /\ task_id_gen' = task_id_gen + 1
    /\ queue' = enqueue(queue, Task_new(task_id_gen, priority))
    /\ saved' = MapInsert(saved, task_id_gen, TRUE)
    /\ prog' = MapInsert(prog, task_id_gen, Caller)
    /\ qtask' = MapInsert(qtask, task_id_gen, NewCall(kind, method, task_id_gen, 1))
    /\ last' = [NoOp EXCEPT !.op = "add", !.before = queue, !.now = ticks]
    /\ picks' = <<>>
    /\ sleep_at' = MapInsert(sleep_at, task_id_gen, {})
    /\ UNCHANGED <<running_task, TICKS, sw, mutex, counter, inner, log, notqueue>>

\* The first inner.enqueue or inner.dequeue of a call, outside switch.  A
\* try_enqueue or try_dequeue that fails returns here.
QueueCall(c) ==
    /\ at(c, "call")
    /\ LET id == cur_id(c)
           t == IF qtask[id].ret = "none"
                THEN [qtask[id] EXCEPT !.called = ticks, !.rel = log.rel_full]
                ELSE qtask[id]
           e == inner_enqueue(inner, Get(t.item))
           d == inner_dequeue(inner)
           ok == IF t.kind = "producer" THEN e.ok ELSE d.item # {}
       IN  /\ inner' = IF t.kind = "producer" THEN e.q ELSE d.q
           /\ IF ok
              THEN /\ prog' = [prog EXCEPT ![id].pc = "release"]
                   /\ qtask' = [qtask EXCEPT ![id] =
                        [t EXCEPT !.item = IF t.kind = "producer" THEN @ ELSE d.item]]
                   /\ log' = log
              ELSE IF t.method = "try"
              THEN /\ next_call(id)
                   /\ log' = IF t.kind = "producer"
                             THEN [log EXCEPT !.failed = @ \cup {Failure(t)}]
                             ELSE log
              ELSE /\ prog' = [prog EXCEPT ![id].pc = "switch"]
                   /\ qtask' = [qtask EXCEPT ![id] = t]
                   /\ log' = log
    /\ UNCHANGED <<task_id_gen, queue, running_task, TICKS, saved, sw, hvars,
                   mutex, counter, notqueue>>

\* scheduler().switch(closure, 0), up to the request of the queue lock
QueueSwitch(c) ==
    /\ at(c, "switch")
    /\ queue.pending_id_gen < MaxQueuePending
    /\ LET t == qtask[cur_id(c)]
           timeout == IF t.method = "timeout" THEN Some(QueueTimeout) ELSE {}
       IN  switch_enter(c, IF t.kind = "producer" THEN OpEnqueue(timeout)
                           ELSE OpDequeue(timeout), "ret")
    /\ UNCHANGED <<queue, TICKS, hvars, mutex, counter, notqueue, qvars>>

\* The part of switch that holds the queue lock.  The closure of a Queue call
\* tries the MpMcQueue again before it asks for Blocked.
QueueSwitchLocked(c) ==
    /\ switch_locked(c)
    /\ LET cpu_task == Get(sw[c].cpu_task)
           id == cpu_task.id
           op == Get(sw[c].op)
           switch == scheduling_op(op)
           e == inner_enqueue(inner, Get(qtask[id].item))
           d == inner_dequeue(inner)
       IN  CASE op.name = "enqueue" ->
                /\ inner' = IF switch = {} THEN e.q ELSE inner
                /\ qtask' = [qtask EXCEPT
                      ![id].ret = closure_ret(switch),
                      ![id].pended = switch # {} /\
                            dequeue(queue, cpu_task, Get(switch)).task # cpu_task]
             [] op.name = "dequeue" ->
                /\ inner' = IF switch = {} THEN d.q ELSE inner
                /\ qtask' = [qtask EXCEPT
                      ![id].ret = closure_ret(switch),
                      ![id].item = IF switch = {} THEN d.item ELSE {},
                      ![id].pended = switch # {} /\
                            dequeue(queue, cpu_task, Get(switch)).task # cpu_task]
             [] OTHER -> UNCHANGED <<inner, qtask>>
    /\ UNCHANGED <<log, notqueue>>

\* switch has returned what the closure returned.
QueueReturned(c) ==
    /\ at(c, "ret")
    /\ LET id == cur_id(c)
       IN  prog' = [prog EXCEPT ![id].pc =
                        after_switch(qtask[id].ret, qtask[id].method)]
    /\ UNCHANGED <<task_id_gen, queue, running_task, TICKS, saved, sw, hvars,
                   mutex, counter, notqueue, qvars>>

\* The last inner.enqueue or inner.dequeue of enqueue_timeout and
\* dequeue_timeout; a failure returns Err(item) or None.
QueueRetry(c) ==
    /\ at(c, "retry")
    /\ LET id == cur_id(c)
           t == qtask[id]
           e == inner_enqueue(inner, Get(t.item))
           d == inner_dequeue(inner)
           ok == IF t.kind = "producer" THEN e.ok ELSE d.item # {}
       IN  /\ inner' = IF t.kind = "producer" THEN e.q ELSE d.q
           /\ IF ok
              THEN /\ prog' = [prog EXCEPT ![id].pc = "release"]
                   /\ qtask' = [qtask EXCEPT ![id].item =
                                    IF t.kind = "producer" THEN @ ELSE d.item]
                   /\ log' = log
              ELSE /\ next_call(id)
                   /\ log' = IF t.kind = "producer"
                             THEN [log EXCEPT !.failed = @ \cup {Failure(t)}]
                             ELSE log
    /\ UNCHANGED <<task_id_gen, queue, running_task, TICKS, saved, sw, hvars,
                   mutex, counter, notqueue>>

\* The end of a call that succeeded: release of empty_chan after an enqueue,
\* of full_chan after a dequeue, then the return.
QueueRelease(c) ==
    /\ at(c, "release")
    /\ LET id == cur_id(c)
           t == qtask[id]
           chan == release_chan(t.kind)
       IN  /\ queue' = release(queue, chan)
           /\ last' = [NoOp EXCEPT !.op = "release", !.before = queue,
                                   !.chan = {chan}, !.now = ticks]
           /\ log' = IF t.kind = "producer"
                     THEN [log EXCEPT !.sent = @ \cup t.item]
                     ELSE [log EXCEPT !.got = Append(@, Get(t.item)),
                                      !.rel_full = @ + 1]
           /\ next_call(id)
    /\ picks' = <<>>
    /\ UNCHANGED <<task_id_gen, running_task, TICKS, saved, sw, sleep_at,
                   mutex, counter, inner, notqueue>>

QueueTimer(c) == timer_handler(c, MaxQueueTicks)

\* The item an interrupt handler enqueues: no task has this id.
IrqItem(n) == <<MaxTasks, n>>

\* An interrupt handler, entered where interrupts are enabled, hands an item
\* to try_enqueue: inner.enqueue, then the release of empty_chan.
QueueInterrupt(c) ==
    /\ Interruptible(c)
    /\ log.irq < MaxQueueIrq
    /\ LET e == inner_enqueue(inner, IrqItem(log.irq + 1))
       IN  /\ inner' = e.q
           /\ queue' = IF e.ok THEN release(queue, release_chan("producer")) ELSE queue
           /\ last' = IF e.ok
                      THEN [NoOp EXCEPT !.op = "release", !.before = queue,
                                        !.chan = {release_chan("producer")},
                                        !.now = ticks]
                      ELSE last
           /\ picks' = IF e.ok THEN <<>> ELSE picks
           /\ log' = [log EXCEPT !.irq = @ + 1,
                                 !.sent = IF e.ok THEN @ \cup {IrqItem(log.irq + 1)} ELSE @]
    /\ UNCHANGED <<task_id_gen, running_task, TICKS, saved, sw, sleep_at,
                   mutex, counter, prog, qtask, notqueue>>

NextQueue ==
    \E c \in Cpus :
        \/ \E priority \in PriorityMin..MaxQueueLevel,
              kind \in {"producer", "consumer"},
              method \in {"block", "timeout", "try"} :
                QueueSpawn(c, priority, kind, method)
        \/ QueueCall(c)
        \/ QueueSwitch(c)
        \/ QueueSwitchLocked(c)
        \/ SwitchEnd(c)
        \/ QueueReturned(c)
        \/ QueueRetry(c)
        \/ QueueRelease(c)
        \/ QueueTimer(c)
        \/ QueueInterrupt(c)
        \/ Elapse(c)
        \/ \E t \in Timeouts : Sleep(c, t)

SpecQueue == Init /\ [][NextQueue]_vars

(* ------------------------ claims: sync Queue -------------------------- *)
Producers == {id \in DOMAIN qtask : qtask[id].kind = "producer"}
Consumers == {id \in DOMAIN qtask : qtask[id].kind = "consumer"}

\* The items inner.dequeue has handed to consumers whose dequeue has not
\* returned yet.
Held == UNION {qtask[id].item : id \in Consumers}

\* How many times item x is in s, and how many times it is stored: returned by
\* a dequeue, in the hands of a dequeue, or in the MpMcQueue.
Occurrences(s, x) == Cardinality({i \in 1..Len(s) : s[i] = x})
Stored(x) ==
    Occurrences(log.got, x) + Occurrences(inner, x)
    + Cardinality({id \in Consumers : x \in qtask[id].item})

\* The items known: those of the calls made so far.
Items ==
    {<<id, n>> : id \in Producers \cup {MaxTasks}, n \in 1..QueueItems}

\* An inner.enqueue, or inner.dequeue, of a task of this kind has succeeded and
\* its release has not been made yet.
ReleaseToCome(kind) ==
    \E id \in DOMAIN qtask :
        /\ qtask[id].kind = kind
        /\ \/ prog[id].pc = "release"
           \/ prog[id].pc = "ret" /\ qtask[id].ret = "ok"

\* One producer and one consumer at most, and no interrupt handler enqueues.
OneProducerOneConsumer ==
    /\ Cardinality(Producers) <= 1
    /\ Cardinality(Consumers) <= 1
    /\ log.irq = 0

\* The items dequeued, then the one in the hands of the consumer, then those
\* in the MpMcQueue.
Passed ==
    log.got \o (IF Held = {} THEN <<>> ELSE <<CHOOSE x \in Held : TRUE>>) \o inner

\* C15: with one producer and one consumer the items pass the Queue in the
\* order of the enqueues, none twice and none lost: every item an enqueue
\* has returned Ok for is stored, a blocking enqueue returns Ok for every
\* item, also when it found the queue full, and when both have made all
\* their blocking calls the consumer has got exactly the items enqueued.
C15_FifoExactlyOnce ==
    OneProducerOneConsumer =>
        /\ \A j, k \in 1..Len(Passed) : j < k => Passed[j][2] < Passed[k][2]
        /\ log.sent \subseteq SeqRange(Passed)
        /\ \A f \in log.failed : f.item \notin SeqRange(Passed)
        /\ \A x \in SeqRange(Passed) :
                x \in log.sent \/ (x[1] \in Producers /\ x \in qtask[x[1]].item)
        /\ \A p \in Producers :
                qtask[p].method = "block" =>
                    /\ log.failed = {}
                    /\ log.sent = {<<p, n>> : n \in 1..prog[p].i}
                    /\ \A cns \in Consumers :
                        (prog[p].pc = "done" /\ prog[cns].pc = "done"
                         /\ qtask[cns].method = "block") =>
                            log.got = [n \in 1..QueueItems |-> <<p, n>>]

\* The blocking producer is pending on full_chan, the queue full, and the
\* consumer is still to dequeue.
C15_Witness ==
    /\ OneProducerOneConsumer
    /\ Len(inner) = QueueN
    /\ \E p \in Producers, id \in BlockedOn(queue, FullChan) :
        /\ qtask[p].method = "block"
        /\ queue.pending_tasks[id].id = p
    /\ \E cns \in Consumers : qtask[cns].method = "block"

\* C16: no wake-up is lost.  A release of empty_chan or full_chan leaves no
\* task pending on that channel and every task it found there runnable, and
\* whenever a task is pending on empty_chan while the queue is not empty, or
\* on full_chan while the queue is not full, the release of the call that
\* made it so is still to come.
C16_NoLostWakeup ==
    /\ (BlockedOn(queue, EmptyChan) # {} /\ inner # <<>>) => ReleaseToCome("producer")
    /\ (BlockedOn(queue, FullChan) # {} /\ Len(inner) < QueueN) => ReleaseToCome("consumer")
    /\ (last.op = "release" /\ last.chan \subseteq {EmptyChan, FullChan}) =>
        /\ BlockedOn(queue, Get(last.chan)) = {}
        /\ \A id \in BlockedOn(last.before, Get(last.chan)) :
                last.before.pending_tasks[id] \in FifoTasks(queue)

\* A successful enqueue has released a consumer pending on empty_chan, and a
\* producer is pending on full_chan while a dequeue that made room has its
\* release still to come.
C16_Witness ==
    \/ /\ last.op = "release" /\ last.chan = {EmptyChan}
       /\ BlockedOn(last.before, EmptyChan) # {}
       /\ log.irq = 1
    \/ /\ BlockedOn(queue, FullChan) # {}
       /\ Len(inner) < QueueN
       /\ last.op = "release" /\ last.chan = {EmptyChan}
       /\ BlockedOn(last.before, EmptyChan) # {}

\* What C17 says of every item but for the time that has passed: an item
\* handed back was never stored and the queue was full at the last try; no
\* item is stored twice and an item reported Ok is stored.
HandedBackOrStoredOnce ==
    /\ \A f \in log.failed : f.full /\ Stored(f.item) = 0 /\ f.item \notin log.sent
    /\ \A x \in Items : Stored(x) <= 1
    /\ \A x \in log.sent : Stored(x) = 1

\* C17 as claimed: enqueue_timeout(x, t) returns Err(x) only when the tick
\* counter has advanced by at least t between the call and the return.
C17_ErrOnlyAfterTimeout ==
    /\ HandedBackOrStoredOnce
    /\ \A f \in log.failed :
            f.method = "timeout" => f.returned >= f.called + QueueTimeout

\* C17: enqueue_timeout(x, t) returns Err(x) only when its last try found the
\* queue full, and then x was never stored; fewer than t ticks have passed
\* only if switch found no task to switch to and returned at once, or if
\* full_chan was released after the call.  Otherwise x is stored once and Ok
\* is returned.
C17_ErrOnlyWhenFull ==
    /\ HandedBackOrStoredOnce
    /\ \A f \in log.failed :
            f.method = "timeout" =>
                \/ f.returned >= f.called + QueueTimeout
                \/ ~f.pended
                \/ f.released

\* An enqueue_timeout has handed its item back after the task was pending for
\* the time of the timeout.
C17_Witness ==
    \E f \in log.failed :
        f.method = "timeout" /\ f.pended /\ ~f.released
        /\ f.returned >= f.called + QueueTimeout

(* ----------------------------- VirtQueue ------------------------------ *)
\* VirtQueue::available_ring_at and VirtQueue::used_ring_at: the slot of an
\* index of the ring
ring_at(i) == i % VqSize

\* u16::wrapping_add(1)
wrapping_inc(i) == (i + 1) % U16

\* The for loop of transfer over the buffers left; last is the descriptor of
\* the buffer handled before.  A buffer is modelled by its associated_data
\* (addr, len and write only go to fields of the descriptor that nothing here
\* reads).  A failed assertion or unwrap is a panic.
RECURSIVE transfer_loop(_, _, _)
transfer_loop(q, buffers, lst) ==
    IF buffers = <<>> \/ q.panic # {} THEN [q |-> q, lst |-> lst]
    ELSE
        LET i == q.first_free_descriptor
            q1 == IF q.buffer_associated_data[i] # {}
                  THEN [q EXCEPT !.panic = Some("replace(..).is_none()")]
                  ELSE [q EXCEPT !.buffer_associated_data[i] = Some(Head(buffers))]
            next == q.descriptor_table[i]
            q2 == IF q1.panic # {} THEN q1
                  ELSE IF q1.num_free_descriptors = 0
                  THEN [q1 EXCEPT !.panic =
                        Some("buffers.len() is different from the actual length")]
                  ELSE IF q1.num_free_descriptors = 1
                  THEN IF next # {}
                       THEN [q1 EXCEPT !.panic = Some("next().is_none()")]
                       ELSE [q1 EXCEPT !.num_free_descriptors = 0]
                  ELSE IF next = {}
                       THEN [q1 EXCEPT !.panic = Some("next().unwrap()")]
                       ELSE [q1 EXCEPT !.first_free_descriptor = Get(next),
                                       !.num_free_descriptors = @ - 1]
        IN  transfer_loop(q2, Tail(buffers), Some(i))

\* An end of transfer that leaves the chain linked to the free descriptors.
transfer_enqueue_linked(q, first, lst) ==
    IF lst = {} \/ q.panic # {} THEN q
    ELSE [q EXCEPT
            !.available_ring.ring[ring_at(q.available_ring.idx)] = first,
            !.available_ring.idx = wrapping_inc(@)]

\* The end of transfer: the chain is unlinked from the free descriptors and
\* its head put to the available ring.
transfer_enqueue(q, first, lst) ==
    IF lst = {} \/ q.panic # {} THEN q
    ELSE [q EXCEPT
            !.descriptor_table[Get(lst)] = {},
            !.available_ring.ring[ring_at(q.available_ring.idx)] = first,
            !.available_ring.idx = wrapping_inc(@)]

\* A transfer that does not look at num_free_descriptors.
transfer_unchecked(q, buffers) ==
    LET r == transfer_loop(q, buffers, {})
    IN  [q |-> transfer_enqueue(r.q, q.first_free_descriptor, r.lst), ret |-> "Ok"]

\* VirtQueue::transfer: the VirtQueue it leaves and what it returns; Err
\* hands the buffers back.
transfer(q, buffers) ==
    IF q.num_free_descriptors < Len(buffers)
    THEN [q |-> q, ret |-> "Err"]
    ELSE LET r == transfer_loop(q, buffers, {})
         IN  [q |-> transfer_enqueue(r.q, q.first_free_descriptor, r.lst),
              ret |-> "Ok"]

\* One round of the inner loop of collect at descriptor i: the descriptor
\* goes to the front of the free descriptors and its slot is taken.
free_descriptor(q, i) ==
    LET prev_first_free_descriptor ==
            IF q.num_free_descriptors = 0 THEN {} ELSE Some(q.first_free_descriptor)
    IN  [q EXCEPT !.first_free_descriptor = i,
                  !.num_free_descriptors = @ + 1,
                  !.descriptor_table[i] = prev_first_free_descriptor,
                  !.buffer_associated_data[i] = {}]

\* A loop that frees the head of the chain only.
free_chain_head(q, i, handled) ==
    IF q.buffer_associated_data[i] = {}
    THEN [q |-> [free_descriptor(q, i) EXCEPT !.panic = Some("associated_data.unwrap()")],
          handled |-> handled]
    ELSE [q |-> free_descriptor(q, i),
          handled |-> Append(handled, Get(q.buffer_associated_data[i]))]

\* The inner loop of collect from descriptor i on: every descriptor of the
\* chain is freed and its data given to handle; the unwrap of a slot that is
\* None is a panic.
RECURSIVE free_chain(_, _, _)
free_chain(q, i, handled) ==
    LET chain == q.descriptor_table[i]
        data == q.buffer_associated_data[i]
    IN  IF data = {}
        THEN [q |-> [free_descriptor(q, i) EXCEPT !.panic = Some("associated_data.unwrap()")],
              handled |-> handled]
        ELSE IF chain = {}
        THEN [q |-> free_descriptor(q, i), handled |-> Append(handled, Get(data))]
        ELSE free_chain(free_descriptor(q, i), Get(chain), Append(handled, Get(data)))

\* VirtQueue::collect: the while loop over the used ring; handled is what
\* handle has been called with, in the order of the calls.
RECURSIVE collect_loop(_, _)
collect_loop(q, handled) ==
    IF q.last_used_idx = q.used_ring.idx \/ q.panic # {}
    THEN [q |-> q, handled |-> handled]
    ELSE LET i == q.used_ring.ring[ring_at(q.last_used_idx)]
             q1 == [q EXCEPT !.last_used_idx = wrapping_inc(@)]
             r == free_chain(q1, i, handled)
         IN  collect_loop(r.q, r.handled)

collect(q) == collect_loop(q, <<>>)

\* The buffers of the n-th transfer: k of them, each with data of its own.
Buffers(n, k) == [j \in 1..k |-> <<n, j>>]

\* The driver calls transfer with k buffers.
Transfer(k) ==
    /\ vq.panic = {}
    /\ vlast.n < MaxTransfers
    /\ LET buffers == Buffers(vlast.n + 1, k)
           r == transfer(vq, buffers)
       IN  /\ vq' = r.q
           /\ vlast' = [op |-> "transfer", before |-> vq, buffers |-> buffers,
                        ret |-> r.ret, handled |-> <<>>, n |-> vlast.n + 1]
    /\ UNCHANGED <<vdev, notvirtq>>

\* The driver calls collect.
Collect ==
    /\ vq.panic = {}
    /\ LET r == collect(vq)
       IN  /\ vq' = r.q
           /\ vlast' = [op |-> "collect", before |-> vq, buffers |-> <<>>,
                        ret |-> "none", handled |-> r.handled, n |-> vlast.n]
    /\ UNCHANGED <<vdev, notvirtq>>

\* The device takes the next head from the available ring.
DeviceTake ==
    /\ vdev.seen # vq.available_ring.idx
    /\ vdev' = [seen |-> wrapping_inc(vdev.seen),
                taken |-> vdev.taken \cup {vq.available_ring.ring[ring_at(vdev.seen)]}]
    /\ vlast' = [vlast EXCEPT !.op = "device"]
    /\ UNCHANGED <<vq, notvirtq>>

\* The device has processed a chain it has taken, in any order, and puts its
\* head to the used ring.
DeviceUse(head) ==
    /\ head \in vdev.taken
    /\ vdev' = [vdev EXCEPT !.taken = @ \ {head}]
    /\ vq' = [vq EXCEPT !.used_ring.ring[ring_at(vq.used_ring.idx)] = head,
                        !.used_ring.idx = wrapping_inc(@)]
    /\ vlast' = [vlast EXCEPT !.op = "device"]
    /\ UNCHANGED notvirtq

NextVirtQueue ==
    \/ \E k \in 0..MaxBuffers : Transfer(k)
    \/ Collect
    \/ DeviceTake
    \/ \E head \in 0..(VqSize - 1) : DeviceUse(head)

SpecVirtQueue == Init /\ [][NextVirtQueue]_vars

(* ------------------------ claims: VirtQueue --------------------------- *)
\* The first n descriptors on the walk from descriptor i along next, in the
\* order of the walk; the walk ends where next() is None.
RECURSIVE Walk(_, _, _)
Walk(q, i, n) ==
    IF n = 0 THEN <<>>
    ELSE IF q.descriptor_table[i] = {} THEN <<i>>
    ELSE <<i>> \o Walk(q, Get(q.descriptor_table[i]), n - 1)

\* The free descriptors of q: num_free_descriptors steps from
\* first_free_descriptor.
FreeChain(q) == Walk(q, q.first_free_descriptor, q.num_free_descriptors)

\* The descriptors with associated data.
InUse(q) == {i \in 0..(VqSize - 1) : q.buffer_associated_data[i] # {}}

\* The chain of descriptors that starts at head.
Chain(q, head) == Walk(q, head, VqSize)

\* The entries of the used ring of q that collect has not consumed, oldest
\* first.
RECURSIVE UsedEntries(_, _)
UsedEntries(q, from) ==
    IF from = q.used_ring.idx THEN <<>>
    ELSE <<q.used_ring.ring[ring_at(from)]>> \o UsedEntries(q, wrapping_inc(from))

\* The data of the descriptors in s, in the order of s.
DataOf(q, s) == [j \in 1..Len(s) |-> Get(q.buffer_associated_data[s[j]])]

\* The chains of the heads in s, one after the other.
RECURSIVE Chains(_, _)
Chains(q, s) ==
    IF s = <<>> THEN <<>> ELSE Chain(q, Head(s)) \o Chains(q, Tail(s))

\* C18: after every transfer and collect the free descriptors -
\* num_free_descriptors of them on the walk from first_free_descriptor, the
\* last with NEXT clear - and the descriptors with associated data are
\* disjoint and together all the descriptors 0..N-1.
C18_FreeAndInUsePartition ==
    /\ vq.panic = {}
    /\ Len(FreeChain(vq)) = vq.num_free_descriptors
    /\ Cardinality(SeqRange(FreeChain(vq))) = vq.num_free_descriptors
    /\ vq.num_free_descriptors > 0 =>
            vq.descriptor_table[FreeChain(vq)[vq.num_free_descriptors]] = {}
    /\ SeqRange(FreeChain(vq)) \cap InUse(vq) = {}
    /\ SeqRange(FreeChain(vq)) \cup InUse(vq) = 0..(VqSize - 1)

\* A collect has left some descriptors free and some in use, after the
\* available ring has wrapped.
C18_Witness ==
    /\ vlast.op = "collect"
    /\ vlast.handled # <<>>
    /\ InUse(vq) # {}
    /\ vq.num_free_descriptors > 0
    /\ vq.available_ring.idx > VqSize

\* C19: a transfer of more buffers than there are free descriptors returns
\* Err with the buffers and leaves the VirtQueue as it was.
C19_TransferErr ==
    (vlast.op = "transfer" /\ Len(vlast.buffers) > vlast.before.num_free_descriptors) =>
        /\ vlast.ret = "Err"
        /\ vq = vlast.before

\* Such a transfer has been made, with descriptors in use.
C19_Witness ==
    /\ vlast.op = "transfer"
    /\ Len(vlast.buffers) > vlast.before.num_free_descriptors
    /\ vlast.before.num_free_descriptors > 0
    /\ InUse(vlast.before) # {}

\* C20: collect consumes every entry of the used ring from last_used_idx up
\* to the idx of the ring once and ends with last_used_idx at that idx; it
\* puts the descriptors of the chains of these entries, and no others, back
\* to the free descriptors, calls handle once for each of them, in the order
\* of the chains, with the data transfer stored, and leaves their slots None.
C20_Collect ==
    vlast.op = "collect" =>
        LET before == vlast.before
            heads == UsedEntries(before, before.last_used_idx)
            freed == Chains(before, heads)
        IN  /\ vq.panic = {}
            /\ vq.last_used_idx = before.used_ring.idx
            /\ vq.used_ring = before.used_ring
            /\ vlast.handled = DataOf(before, freed)
            /\ Cardinality(SeqRange(vlast.handled)) = Len(vlast.handled)
            /\ \A j \in 1..Len(heads) :
                    LET data == DataOf(before, Chain(before, heads[j]))
                    IN  data = Buffers(data[1][1], Len(data))
            /\ Cardinality(SeqRange(freed)) = Len(freed)
            /\ SeqRange(FreeChain(vq)) =
                    SeqRange(FreeChain(before)) \cup SeqRange(freed)
            /\ vq.num_free_descriptors = before.num_free_descriptors + Len(freed)
            /\ InUse(vq) = InUse(before) \ SeqRange(freed)

\* A collect has consumed two entries of the used ring, one of them a chain
\* of two descriptors, while a third chain stays with the device.
C20_Witness ==
    /\ vlast.op = "collect"
    /\ Len(UsedEntries(vlast.before, vlast.before.last_used_idx)) >= 2
    /\ Len(vlast.handled) >= 3

(* --------------------- virtio Block: read and write ------------------- *)
Max(a, b) == IF a >= b THEN a ELSE b

\* A check_capacity that counts every sector the buffer touches.
check_capacity_ceil(capacity, sector, len, overflow_checks) ==
    LET num_sectors == (len + SectorSize - 1) \div SectorSize
        sum == sector + num_sectors
    IN  IF sum >= U64 /\ overflow_checks THEN "panic"
        ELSE IF sum % U64 < capacity THEN "Ok" ELSE "OutOfRange"

\* Block::check_capacity.  The sum is a u64: where it does not fit, a build
\* with overflow checks panics and a build without them wraps.
check_capacity(capacity, sector, len, overflow_checks) ==
    LET num_additional_sectors == (Max(len, 1) - 1) \div SectorSize
        sum == sector + num_additional_sectors
    IN  IF sum >= U64 /\ overflow_checks THEN "panic"
        ELSE IF sum % U64 < capacity THEN "Ok" ELSE "OutOfRange"

\* Block::read and Block::write up to the block on complete_channel: the
\* check, then request with header, body and footer, the footer carrying the
\* channel, and the write of the notify port.  One request at a time finds
\* the descriptors it needs.  The capacity of the device and the build of the
\* kernel are those of the first request.
read_write(kind, capacity, sector, len, overflow_checks) ==
    LET check == check_capacity(capacity, sector, len, overflow_checks)
        buffers == Buffers(vlast.n + 1, 3)
        r == IF check = "Ok" THEN transfer(vq, buffers) ELSE [q |-> vq, ret |-> "none"]
    IN  /\ req.ret # "pending"
        /\ req.kind # "none" => capacity = req.capacity /\ overflow_checks = req.overflow_checks
        /\ vlast.n < MaxRequests
        /\ vq.panic = {}
        /\ vq' = r.q
        /\ vlast' = [op |-> "transfer", before |-> vq, buffers |-> buffers,
                     ret |-> r.ret, handled |-> <<>>, n |-> vlast.n + 1]
        /\ req' = [kind |-> kind, capacity |-> capacity, sector |-> sector, len |-> len,
                   overflow_checks |-> overflow_checks, check |-> check,
                   ret |-> IF check = "Ok" THEN "pending" ELSE check,
                   transferred |-> r.q # vq,
                   notified |-> check = "Ok"]
        /\ UNCHANGED <<vdev, dev, blk, notblock>>

BlockRead(capacity, sector, len, overflow_checks) ==
    read_write("read", capacity, sector, len, overflow_checks)

BlockWrite(capacity, sector, len, overflow_checks) ==
    read_write("write", capacity, sector, len, overflow_checks)

\* The device processes the request and interrupts; Block::collect frees the
\* chain and releases complete_channel, and the read or write returns the
\* status the device has put in the footer.
BlockComplete(status) ==
    /\ req.ret = "pending"
    /\ vdev.taken # {}
    /\ LET head == CHOOSE h \in vdev.taken : TRUE
           used == [vq EXCEPT !.used_ring.ring[ring_at(vq.used_ring.idx)] = head,
                              !.used_ring.idx = wrapping_inc(@)]
           r == collect(used)
       IN  /\ vq' = r.q
           /\ vdev' = [vdev EXCEPT !.taken = @ \ {head}]
           /\ vlast' = [op |-> "collect", before |-> used, buffers |-> <<>>,
                        ret |-> "none", handled |-> r.handled, n |-> vlast.n]
    /\ req' = [req EXCEPT !.ret = status]
    /\ UNCHANGED <<dev, blk, notblock>>

\* The lengths of the buffers: around every multiple of the sector size.
Lens == {l \in {k * SectorSize + d : k \in 0..MaxSectors, d \in {-1, 0, 1}} : l >= 0}

NextCapacity ==
    \/ \E capacity \in 0..MaxSector, sector \in 0..MaxSector, len \in Lens,
          overflow_checks \in BOOLEAN :
            \/ BlockRead(capacity, sector, len, overflow_checks)
            \/ BlockWrite(capacity, sector, len, overflow_checks)
    \/ DeviceTake
    \/ \E status \in {"Ok", "Io", "Unsupported", "Unknown"} : BlockComplete(status)

SpecCapacity == Init /\ [][NextCapacity]_vars

(* ---------------------- claims: Block capacity ------------------------ *)
\* C22: a read or write with sector >= capacity returns OutOfRange, for every
\* length, puts no descriptor on the requestq and does not write the notify
\* port; a buffer of one sector at sector capacity - 1 passes the check.
C22_OutOfRange ==
    /\ (req.kind # "none" /\ req.sector >= req.capacity) =>
            /\ req.ret = "OutOfRange"
            /\ ~req.transferred
            /\ ~req.notified
    /\ (req.kind # "none" /\ req.sector = req.capacity - 1 /\ req.len = SectorSize) =>
            req.check = "Ok"

\* The number of sectors a buffer of len bytes touches.
Ceil(len) == (len + SectorSize - 1) \div SectorSize

\* C23 as claimed: the check accepts if and only if
\* sector + ceil(len/512) < capacity.
C23_AcceptedAsClaimed ==
    req.kind # "none" =>
        (req.check = "Ok" <=> req.sector + Ceil(req.len) < req.capacity)

\* C23: the check accepts if and only if the last sector the buffer touches is
\* below capacity: sector + ceil(len/512) <= capacity for a buffer that is not
\* empty, sector < capacity for an empty one.  Where the number of that last
\* sector does not fit a u64, a build with overflow checks panics and a build
\* without them compares the wrapped sum.
C23_Accepted ==
    req.kind # "none" =>
        LET last_sector == IF req.len = 0 THEN req.sector
                           ELSE req.sector + Ceil(req.len) - 1
        IN  IF last_sector < U64
            THEN /\ req.check \in {"Ok", "OutOfRange"}
                 /\ req.check = "Ok" <=> last_sector < req.capacity
            ELSE IF req.overflow_checks THEN req.check = "panic"
            ELSE req.check = "Ok" <=> last_sector - U64 < req.capacity

\* A buffer of exactly one sector has been accepted at the last sector of the
\* device, and its request has been completed.
C23_Witness ==
    /\ req.kind # "none"
    /\ req.sector = req.capacity - 1
    /\ req.len = SectorSize
    /\ req.check = "Ok"
    /\ req.ret = "Ok"
    /\ req.transferred

(* ------------------------- BitmapFrameManager ------------------------- *)
\* Frame::from_phys_addr
from_phys_addr(addr) == addr \div FrameSize

\* BitmapFrameManager::get_bit and set_bit; a map line holds the bits of its
\* frames, so a bit is addressed by the index of its frame.
get_bit(m, frame) == m.alloc_map[frame]
set_bit(m, frame, allocated) == [m EXCEPT !.alloc_map[frame] = allocated]

\* BitmapFrameManager::mark_allocated
RECURSIVE mark_allocated(_, _, _)
mark_allocated(m, frame, num_frames) ==
    IF num_frames = 0 THEN m
    ELSE mark_allocated(set_bit(m, frame, TRUE), frame + 1, num_frames - 1)

\* BitmapFrameManager::mark_allocated_in_bytes
mark_allocated_in_bytes(m, start, bytes) == mark_allocated(m, start, bytes \div FrameSize)

\* A search that takes the first range inside the managed range, clear or not.
search_unchecked(m, frame, i, num_frames) ==
    IF frame + num_frames > m.end THEN {} ELSE Some(frame)

\* The search of allocate: the first fit from frame on, i bits of it found
\* clear; {} when the search reaches end.
RECURSIVE search(_, _, _, _)
search(m, frame, i, num_frames) ==
    IF i = num_frames THEN Some(frame)
    ELSE IF frame + i >= m.end THEN {}
    ELSE IF get_bit(m, frame + i) THEN search(m, frame + i + 1, 0, num_frames)
    ELSE search(m, frame, i + 1, num_frames)

\* An allocate that searches from frame 0.
allocate_from_zero(m, num_frames) ==
    LET found == search(m, 0, 0, num_frames)
    IN  IF found = {} THEN [m |-> m, ret |-> {}]
        ELSE [m |-> mark_allocated(m, Get(found), num_frames), ret |-> found]

\* An allocate that leaves the bits as they are.
allocate_unmarked(m, num_frames) ==
    [m |-> m, ret |-> search(m, m.begin, 0, num_frames)]

\* BitmapFrameManager::allocate: the manager it leaves and Ok(frame) as
\* {frame}, Err(NotEnoughFrame) as {}.
allocate(m, num_frames) ==
    LET found == search(m, m.begin, 0, num_frames)
    IN  IF found = {} THEN [m |-> m, ret |-> {}]
        ELSE [m |-> mark_allocated(m, Get(found), num_frames), ret |-> found]

\* BitmapFrameManager::free
RECURSIVE free(_, _, _)
free(m, frame, num_frames) ==
    IF num_frames = 0 THEN m
    ELSE free(set_bit(m, frame, FALSE), frame + 1, num_frames - 1)

\* An initialize that marks nothing before the first descriptor.
RECURSIVE initialize_loop_late(_, _, _)
initialize_loop_late(m, descriptors, phys_available_end) ==
    IF descriptors = <<>> THEN [m |-> m, phys_available_end |-> phys_available_end]
    ELSE LET d == Head(descriptors)
             m1 == IF 0 < phys_available_end /\ phys_available_end < d.phys_start
                   THEN mark_allocated_in_bytes(m, from_phys_addr(phys_available_end),
                                                d.phys_start - phys_available_end)
                   ELSE m
         IN  initialize_loop_late(m1, Tail(descriptors), d.phys_end)

\* The loop of initialize over the descriptors left.
RECURSIVE initialize_loop(_, _, _)
initialize_loop(m, descriptors, phys_available_end) ==
    IF descriptors = <<>> THEN [m |-> m, phys_available_end |-> phys_available_end]
    ELSE LET d == Head(descriptors)
             m1 == IF phys_available_end < d.phys_start
                   THEN mark_allocated_in_bytes(m, from_phys_addr(phys_available_end),
                                                d.phys_start - phys_available_end)
                   ELSE m
         IN  initialize_loop(m1, Tail(descriptors), d.phys_end)

\* BitmapFrameManager::initialize
initialize(m, mm) ==
    LET r == initialize_loop(m, mm, 0)
    IN  [r.m EXCEPT !.begin = FrameMin, !.end = from_phys_addr(r.phys_available_end)]

\* A descriptor as the loader makes it from a UEFI descriptor: phys_start a
\* multiple of the page size, phys_end = phys_start + page_count * 4096.
Descriptor(start_page, page_count) ==
    [phys_start |-> start_page * FrameSize,
     phys_end |-> start_page * FrameSize + page_count * FrameSize]

Descriptors ==
    {Descriptor(a, k) : a \in 0..(MaxFrames - 1), k \in 1..MaxFrames} \cap
    {d \in [phys_start : 0..(MaxFrames * FrameSize), phys_end : 0..(MaxFrames * FrameSize)] : TRUE}

\* The memory maps: descriptors ascending, none reaching into the next.
MemoryMaps ==
    {mm \in UNION {[1..k -> Descriptors] : k \in 0..MaxDescriptors} :
        \A j \in 1..(Len(mm) - 1) : mm[j].phys_end <= mm[j + 1].phys_start}

\* kernel_main: initialize, before anything is allocated.
FrameInitialize(mm) ==
    /\ flast.op = "none"
    /\ fm' = initialize(fm, mm)
    /\ flast' = [op |-> "initialize", num_frames |-> 0, frame |-> 0, ret |-> {},
                 before |-> fm, mm |-> Some(mm)]
    /\ UNCHANGED <<ranges, notframe>>

\* frame_manager().allocate(num_frames)
FrameAllocate(num_frames) ==
    /\ Len(ranges) < MaxHeld
    /\ LET r == allocate(fm, num_frames)
       IN  /\ fm' = r.m
           /\ ranges' = IF r.ret = {} THEN ranges ELSE Append(ranges, <<Get(r.ret), num_frames>>)
           /\ flast' = [flast EXCEPT !.op = "allocate", !.num_frames = num_frames,
                                     !.frame = 0, !.ret = r.ret, !.before = fm]
    /\ UNCHANGED notframe

\* frame_manager().free(frame, num_frames) of a range that allocate returned
\* and that has not been freed.
FrameFree(j) ==
    /\ j \in 1..Len(ranges)
    /\ fm' = free(fm, ranges[j][1], ranges[j][2])
    /\ ranges' = [k \in 1..(Len(ranges) - 1) |-> IF k < j THEN ranges[k] ELSE ranges[k + 1]]
    /\ flast' = [flast EXCEPT !.op = "free", !.num_frames = ranges[j][2],
                              !.frame = ranges[j][1], !.ret = {}, !.before = fm]
    /\ UNCHANGED notframe

NextFrame ==
    \/ \E mm \in MemoryMaps : FrameInitialize(mm)
    \/ \E num_frames \in 0..MaxNumFrames : FrameAllocate(num_frames)
    \/ \E j \in 1..MaxHeld : FrameFree(j)

SpecFrame == Init /\ [][NextFrame]_vars

(* -------------------- claims: BitmapFrameManager ---------------------- *)
\* The frames of the range that starts at frame.
Range(frame, num_frames) == frame..(frame + num_frames - 1)

\* The num_frames bits from frame on lie inside the managed range of m and
\* are clear.
Fits(m, frame, num_frames) ==
    /\ m.begin <= frame
    /\ frame + num_frames <= m.end
    /\ \A i \in Range(frame, num_frames) : ~m.alloc_map[i]

\* C25: allocate(n) with n >= 1 returns the lowest frame index f >= 1 whose n
\* bits lie inside the managed range and were clear before the call; after
\* the call exactly those n bits have been set and no other bit has changed.
C25_FirstFit ==
    (flast.op = "allocate" /\ flast.num_frames >= 1 /\ flast.ret # {}) =>
        LET f == Get(flast.ret)
            n == flast.num_frames
        IN  /\ f >= 1
            /\ Fits(flast.before, f, n)
            /\ \A g \in 0..(MaxFrames - 1) : Fits(flast.before, g, n) => f <= g
            /\ \A i \in 0..(MaxFrames - 1) :
                    fm.alloc_map[i] = (i \in Range(f, n) \/ flast.before.alloc_map[i])
            /\ fm.begin = flast.before.begin /\ fm.end = flast.before.end

\* An allocate of two frames or more has skipped a clear frame that was too
\* short a run and has left frames in use behind it untouched.
C25_Witness ==
    /\ flast.op = "allocate"
    /\ flast.num_frames >= 2
    /\ flast.ret # {}
    /\ \E g \in 1..(MaxFrames - 1) : g < Get(flast.ret) /\ ~flast.before.alloc_map[g]
    /\ \E g \in 1..(MaxFrames - 1) : g < Get(flast.ret) /\ flast.before.alloc_map[g]

\* C26: the ranges allocate has returned and that have not been freed are
\* pairwise disjoint, and so are two allocations with no free in between.
C26_Disjoint ==
    \A j, k \in 1..Len(ranges) :
        j < k => Range(ranges[j][1], ranges[j][2]) \cap Range(ranges[k][1], ranges[k][2]) = {}

\* Three ranges are held, one of them allocated after a free, in frames that
\* had been held before.
C26_Witness ==
    /\ Len(ranges) = 3
    /\ \A j \in 1..3 : ranges[j][2] >= 1
    /\ flast.op = "allocate"
    /\ ranges[3][1] < ranges[2][1]

\* The byte addresses that no descriptor of mm covers, below the end of the
\* last descriptor: before the first descriptor or between two of them.  Of
\* every frame the first and the last byte are looked at.
Uncovered(mm) ==
    {addr \in {i * FrameSize + d : i \in 0..(MaxFrames - 1), d \in {0, FrameSize - 1}} :
        /\ \E j \in 1..Len(mm) : addr < mm[j].phys_start
        /\ \A j \in 1..Len(mm) : ~(mm[j].phys_start <= addr /\ addr < mm[j].phys_end)}

\* C27: after initialize(mm), mm ascending, the bit of the frame of every byte
\* before the first descriptor or between two descriptors is set, and no
\* allocate returns such a frame.
C27_GapsAllocated ==
    flast.mm # {} =>
        \A addr \in Uncovered(Get(flast.mm)) :
            /\ fm.alloc_map[from_phys_addr(addr)]
            /\ \A j \in 1..Len(ranges) :
                    from_phys_addr(addr) \notin Range(ranges[j][1], ranges[j][2])

\* After an initialize with a gap before the first descriptor and one between
\* the two descriptors, frames have been allocated and freed.
C27_Witness ==
    /\ flast.mm # {}
    /\ Len(Get(flast.mm)) = 2
    /\ Get(flast.mm)[1].phys_start > FrameSize
    /\ Get(flast.mm)[1].phys_end < Get(flast.mm)[2].phys_start
    /\ flast.op = "free"
    /\ ranges # <<>>

\* C28 as claimed: no allocate returns a range with frame 0 or frame 1 in it.
C28_ZeroAndOneReserved ==
    \A j \in 1..Len(ranges) : {0, 1} \cap Range(ranges[j][1], ranges[j][2]) = {}

\* C28: frame 0 is reserved: no allocate returns a range with frame 0 in it;
\* the search starts at Frame::MIN, which is frame 1.
C28_ZeroReserved ==
    /\ \A j \in 1..Len(ranges) : 0 \notin Range(ranges[j][1], ranges[j][2])
    /\ (flast.op = "allocate" /\ flast.ret # {}) => Get(flast.ret) >= FrameMin

\* An allocate has returned frame 1 while frame 0 was clear.
C28_Witness ==
    /\ flast.op = "allocate"
    /\ flast.num_frames >= 1
    /\ flast.ret = Some(FrameMin)
    /\ ~flast.before.alloc_map[0]

(* --------------------------- KernelAllocator -------------------------- *)
\* The position of the first block size that is >= size, if there is one;
\* positions count from 1 here, from 0 in the code.
position(size) ==
    LET found == {index \in 1..Len(BLOCK_SIZES) : BLOCK_SIZES[index] >= size}
    IN  IF found = {} THEN {} ELSE Some(CHOOSE index \in found : \A j \in found : index <= j)

\* A conversion that takes the size of the layout alone.
AllocationMode_from_size(size, align) ==
    IF position(size) # {} THEN <<"Block", Get(position(size))>>
    ELSE <<"Frame", (size + FrameSize - 1) \div FrameSize>>

\* impl From<Layout> for AllocationMode
AllocationMode_from(size, align) ==
    LET v == Max(size, align)
    IN  IF position(v) # {} THEN <<"Block", Get(position(v))>>
        ELSE <<"Frame", (v + FrameSize - 1) \div FrameSize>>

\* paging::as_virt_addr and as_phys_addr: physical memory is identity-mapped
\* (below 64 GiB, where all the memory of the model lies).
as_virt_addr(addr) == addr
as_phys_addr(addr) == addr

\* Frame::phys_addr
phys_addr(frame) == frame * FrameSize

\* Links that leave the last block of the frame out.
block_links_short(ptr, block_size) ==
    LET num_blocks_per_frame == FrameSize \div block_size
    IN  [current \in {ptr + i * block_size : i \in 0..(num_blocks_per_frame - 2)} |->
            IF current = ptr + (num_blocks_per_frame - 2) * block_size
            THEN Null ELSE current + block_size]

\* The links allocate_frame_for_block writes to the frame at ptr: every block
\* points to the next, the last to null.
block_links(ptr, block_size) ==
    LET num_blocks_per_frame == FrameSize \div block_size
    IN  [current \in {ptr + i * block_size : i \in 0..(num_blocks_per_frame - 1)} |->
            IF current = ptr + (num_blocks_per_frame - 1) * block_size
            THEN Null ELSE current + block_size]

\* An allocate_frame_for_block that hands out a frame whether or not the frame
\* manager had one.
allocate_frame_for_block_any(h, m, index) ==
    LET r == allocate(m, 1)
        ptr == as_virt_addr(phys_addr(IF r.ret = {} THEN m.begin ELSE Get(r.ret)))
    IN  [heap |-> [h EXCEPT !.mem = block_links(ptr, BLOCK_SIZES[index]) @@ @],
         fm |-> r.m, ret |-> r.ret, ptr |-> ptr]

\* allocate_frame_for_block: the allocator and the frame manager it leaves,
\* what allocate returned, and the pointer it returns.
allocate_frame_for_block(h, m, index) ==
    LET r == allocate(m, 1)
    IN  IF r.ret = {} THEN [heap |-> h, fm |-> m, ret |-> {}, ptr |-> Null]
        ELSE LET ptr == as_virt_addr(phys_addr(Get(r.ret)))
             IN  [heap |-> [h EXCEPT !.mem = block_links(ptr, BLOCK_SIZES[index]) @@ @],
                  fm |-> r.m, ret |-> r.ret, ptr |-> ptr]

\* GlobalAlloc::alloc.  The block handed out is the caller's: what it holds
\* is no longer a link.
alloc(h, m, size, align) ==
    LET mode == AllocationMode_from(size, align)
    IN  IF mode[1] = "Block"
        THEN LET index == mode[2]
                 refill == h.available_blocks[index] = Null
                 r == IF refill THEN allocate_frame_for_block(h, m, index)
                      ELSE [heap |-> h, fm |-> m, ret |-> {},
                            ptr |-> h.available_blocks[index]]
                 h1 == IF r.ptr # Null
                       THEN [r.heap EXCEPT
                                !.available_blocks[index] = r.heap.mem[r.ptr],
                                !.mem = [x \in (DOMAIN @) \ {r.ptr} |-> @[x]]]
                       ELSE r.heap
             IN  [heap |-> h1, fm |-> r.fm, ptr |-> r.ptr,
                  needed_frames |-> IF refill THEN 1 ELSE 0,
                  frame |-> r.ret]
        ELSE LET r == allocate(m, mode[2])
             IN  [heap |-> h, fm |-> r.m,
                  ptr |-> IF r.ret = {} THEN Null ELSE as_virt_addr(phys_addr(Get(r.ret))),
                  needed_frames |-> mode[2],
                  frame |-> r.ret]

\* A dealloc that hands the frame of a block back to the frame manager.
dealloc_freeing_frame(h, m, ptr, size, align) ==
    LET mode == AllocationMode_from(size, align)
    IN  IF mode[1] = "Block"
        THEN [heap |-> [h EXCEPT !.mem = (ptr :> h.available_blocks[mode[2]]) @@ @,
                                 !.available_blocks[mode[2]] = ptr],
              fm |-> free(m, from_phys_addr(as_phys_addr(ptr)), 1)]
        ELSE [heap |-> h, fm |-> free(m, from_phys_addr(as_phys_addr(ptr)), mode[2])]

\* GlobalAlloc::dealloc
dealloc(h, m, ptr, size, align) ==
    LET mode == AllocationMode_from(size, align)
    IN  IF mode[1] = "Block"
        THEN [heap |-> [h EXCEPT !.mem = (ptr :> h.available_blocks[mode[2]]) @@ @,
                                 !.available_blocks[mode[2]] = ptr],
              fm |-> m]
        ELSE [heap |-> h, fm |-> free(m, from_phys_addr(as_phys_addr(ptr)), mode[2])]

\* The alignments of a Layout: the powers of two.
RECURSIVE PowersOfTwo(_)
PowersOfTwo(max) == IF max < 1 THEN {} ELSE {max} \cup PowersOfTwo(max \div 2)

\* The layouts of the calls of alloc: of the two largest classes, and whole
\* frames, one for its alignment, two for their size and two for their
\* alignment.
AllocLayouts ==
    {<<1000, 8>>, <<2048, 8>>, <<8, FrameSize>>, <<2 * FrameSize, FrameSize>>,
     <<8, 2 * FrameSize>>}

\* The layouts that are converted: sizes around every block size and around
\* every number of frames, with every alignment.
Layouts ==
    {s + d : s \in SeqRange(BLOCK_SIZES) \cup {k * FrameSize : k \in 1..MaxNumFrames},
             d \in {-1, 0, 1}}
    \X PowersOfTwo(2 * FrameSize)

\* A call of alloc(layout)
HeapAlloc(size, align) ==
    /\ Cardinality(heap.live) < MaxLive
    /\ LET r == alloc(heap, fm, size, align)
       IN  /\ heap' = [r.heap EXCEPT
                        !.live = IF r.ptr = Null THEN @
                                 ELSE @ \cup {<<r.ptr, size, align,
                                                AllocationMode_from(size, align)>>},
                        !.carved = IF AllocationMode_from(size, align)[1] = "Block"
                                      /\ r.frame # {}
                                   THEN (Get(r.frame) :> AllocationMode_from(size, align)[2]) @@ @
                                   ELSE @]
           /\ fm' = r.fm
           /\ ranges' = IF r.frame = {} THEN ranges
                        ELSE Append(ranges, <<Get(r.frame), Max(r.needed_frames, 1)>>)
           /\ flast' = IF r.needed_frames = 0 THEN flast
                       ELSE [flast EXCEPT !.op = "allocate", !.num_frames = r.needed_frames,
                                          !.frame = 0, !.ret = r.frame, !.before = fm]
           /\ hlast' = [op |-> "alloc", size |-> size, align |-> align,
                        mode |-> AllocationMode_from(size, align),
                        alloc_mode |-> AllocationMode_from(size, align), ret |-> r.ptr,
                        before |-> heap.available_blocks,
                        needed_frames |-> r.needed_frames]
    /\ UNCHANGED notalloc

\* A call of dealloc(ptr, layout) with a pointer alloc returned for that
\* layout.
HeapDealloc(ptr, size, align) ==
    /\ \E l \in heap.live : <<l[1], l[2], l[3]>> = <<ptr, size, align>>
    /\ LET r == dealloc(heap, fm, ptr, size, align)
           mode == AllocationMode_from(size, align)
           l == CHOOSE l \in heap.live : <<l[1], l[2], l[3]>> = <<ptr, size, align>>
       IN  /\ heap' = [r.heap EXCEPT !.live = @ \ {l}]
           /\ fm' = r.fm
           /\ ranges' = IF mode[1] = "Block" THEN ranges
                        ELSE SelectSeq(ranges, LAMBDA x : x # <<from_phys_addr(ptr), mode[2]>>)
           /\ flast' = IF mode[1] = "Block" THEN flast
                       ELSE [flast EXCEPT !.op = "free", !.num_frames = mode[2],
                                          !.frame = from_phys_addr(ptr), !.ret = {},
                                          !.before = fm]
           /\ hlast' = [op |-> "dealloc", size |-> size, align |-> align,
                        mode |-> mode, alloc_mode |-> l[4], ret |-> ptr,
                        before |-> heap.available_blocks, needed_frames |-> 0]
    /\ UNCHANGED notalloc

\* layout.into(), as alloc and dealloc begin.
LayoutInto(size, align) ==
    /\ hlast.op = "none"
    /\ hlast' = [NoAlloc EXCEPT !.op = "into", !.size = size, !.align = align,
                                !.mode = AllocationMode_from(size, align)]
    /\ UNCHANGED <<heap, fvars, notalloc>>

\* The memory maps of one descriptor from address 0 on.
OneDescriptorMaps == {mm \in MemoryMaps : Len(mm) = 1 /\ mm[1].phys_start = 0}

NextAllocator ==
    \/ \E mm \in OneDescriptorMaps : FrameInitialize(mm)
    \/ \E l \in AllocLayouts : HeapAlloc(l[1], l[2])
    \/ \E l \in heap.live : HeapDealloc(l[1], l[2], l[3])
    \/ \E l \in Layouts : LayoutInto(l[1], l[2])

SpecAllocator == Init /\ [][NextAllocator]_vars

(* ----------------------- claims: KernelAllocator ---------------------- *)
\* No run of num_frames clear bits lies inside the managed range of m.
NoRun(m, num_frames) == \A f \in 0..(MaxFrames - 1) : ~Fits(m, f, num_frames)

\* C29: when no run of n clear bits exists inside the managed range,
\* allocate(n) returns the error and sets no bit, and the alloc that needed
\* the frames - for its layout, or to refill an empty class - returns null and
\* leaves the free-list head of every class as it was.
C29_NotEnoughMemory ==
    (hlast.op = "alloc" /\ hlast.needed_frames >= 1 /\ NoRun(flast.before, hlast.needed_frames)) =>
        /\ flast.op = "allocate"
        /\ flast.ret = {}
        /\ fm = flast.before
        /\ hlast.ret = Null
        /\ heap.available_blocks = hlast.before

\* The refill of an empty class has failed, for want of a clear frame, while
\* another class has free blocks and an allocation is alive.
C29_Witness ==
    /\ hlast.op = "alloc"
    /\ hlast.mode[1] = "Block"
    /\ hlast.needed_frames = 1
    /\ NoRun(flast.before, 1)
    /\ \E index \in 1..Len(BLOCK_SIZES) : heap.available_blocks[index] # Null
    /\ heap.live # {}

\* C30: with v = max(size, alignment), a layout with v <= 2048 is served from
\* the smallest of the nine classes that is >= v, any other by ceil(v / 4096)
\* frames; dealloc selects what alloc of the same layout selected.
C30_Classification ==
    hlast.op # "none" =>
        LET v == Max(hlast.size, hlast.align)
            mode == hlast.mode
        IN  /\ Len(BLOCK_SIZES) = 9
            /\ IF v <= 2048
               THEN /\ mode[1] = "Block"
                    /\ mode[2] \in 1..Len(BLOCK_SIZES)
                    /\ BLOCK_SIZES[mode[2]] >= v
                    /\ \A index \in 1..Len(BLOCK_SIZES) :
                            BLOCK_SIZES[index] >= v => BLOCK_SIZES[mode[2]] <= BLOCK_SIZES[index]
               ELSE /\ mode[1] = "Frame"
                    /\ mode[2] * FrameSize >= v
                    /\ (mode[2] - 1) * FrameSize < v
            /\ hlast.op = "dealloc" => hlast.mode = hlast.alloc_mode

\* A dealloc has freed the frame of a layout that is small but aligned to a
\* frame.
C30_Witness ==
    /\ hlast.op = "dealloc"
    /\ hlast.size < hlast.align
    /\ hlast.mode = <<"Frame", 1>>

\* C31: dealloc of a block never clears a bit of the frame manager; every
\* frame taken to refill a class stays allocated; the block freed becomes the
\* head of the free list of its class, and alloc of a class whose list is not
\* empty returns the head.
C31_BlockFramesKept ==
    /\ [](\A f \in DOMAIN heap.carved : get_bit(fm, f))
    /\ []((hlast.op = "dealloc" /\ hlast.mode[1] = "Block") =>
            heap.available_blocks[hlast.mode[2]] = hlast.ret)
    /\ []((hlast.op = "alloc" /\ hlast.mode[1] = "Block"
            /\ hlast.before[hlast.mode[2]] # Null) =>
            hlast.ret = hlast.before[hlast.mode[2]])
    /\ [][(hlast' # hlast /\ hlast'.op = "dealloc" /\ hlast'.mode[1] = "Block") =>
            \A f \in 0..(MaxFrames - 1) : get_bit(fm, f) => get_bit(fm', f)]_vars

\* A block has been freed and allocated again, and freed once more, its frame
\* still allocated.
C31_Witness ==
    /\ hlast.op = "dealloc"
    /\ hlast.mode[1] = "Block"
    /\ heap.carved # <<>>
    /\ \E l \in heap.live : l[4][1] = "Block"
    /\ heap.mem[hlast.ret] # Null

\* The free list of a class: the walk from p along the links, n steps at most.
RECURSIVE FreeList(_, _, _)
FreeList(h, p, n) ==
    IF p = Null \/ n = 0 THEN <<>>
    ELSE <<p>> \o FreeList(h, IF p \in DOMAIN h.mem THEN h.mem[p] ELSE Null, n - 1)

\* The blocks of a frame carved for class index, and the live blocks of the
\* class.
BlocksOf(frame, index) ==
    {phys_addr(frame) + i * BLOCK_SIZES[index] :
        i \in 0..((FrameSize \div BLOCK_SIZES[index]) - 1)}
LiveBlocks(index) == {l[1] : l \in {x \in heap.live : x[4] = <<"Block", index>>}}

\* C39: no two live allocations have the same pointer, and the blocks of the
\* frames carved for a class - 4096 / class-size of every frame - are each
\* either live or on the free list of the class, there exactly once.
C39_LiveOrFree ==
    /\ \A l1, l2 \in heap.live : l1 # l2 => l1[1] # l2[1]
    /\ \A index \in 1..Len(BLOCK_SIZES) :
        LET frames == {f \in DOMAIN heap.carved : heap.carved[f] = index}
            blocks == UNION {BlocksOf(f, index) : f \in frames}
            list == FreeList(heap, heap.available_blocks[index], Cardinality(blocks) + 1)
        IN  /\ Cardinality(blocks) = Cardinality(frames) * (FrameSize \div BLOCK_SIZES[index])
            /\ SeqRange(list) \cup LiveBlocks(index) = blocks
            /\ SeqRange(list) \cap LiveBlocks(index) = {}
            /\ Len(list) = Cardinality(SeqRange(list))

\* Two blocks of a frame were freed, and alloc has returned the one freed
\* last: it is live, and the other three blocks of the frame are on the free
\* list, the first block of the frame at its head.
C39_Witness ==
    /\ Cardinality(LiveBlocks(8)) = 1
    /\ Len(FreeList(heap, heap.available_blocks[8], 5)) = 3
    /\ Cardinality({f \in DOMAIN heap.carved : heap.carved[f] = 8}) = 1
    /\ hlast.op = "alloc"
    /\ hlast.ret = hlast.before[8]
    /\ heap.available_blocks[8] # Null
    /\ heap.available_blocks[8] < hlast.ret

\* C40: every pointer alloc returns that is not null is a multiple of the
\* alignment of the layout.
C40_Aligned ==
    (hlast.op = "alloc" /\ hlast.ret # Null) => hlast.ret % hlast.align = 0

(* ------------------ virtio Block: device initialization --------------- *)
\* What a device can be like: its MSI-X capability, whether BAR0 is an I/O
\* port, whether it accepts the features of the driver, and the size of its
\* queue 0.
Natures ==
    [msi_x : {"none", "empty", "ok"}, io_port : BOOLEAN, accepts : BOOLEAN,
     queue_size : {0, VqSize}]

\* The device status register after the driver has written value to it: a
\* device that does not accept the features does not take FEATURES_OK.
device_status_written(nature, value) ==
    IF nature.accepts THEN value ELSE value \ {"FEATURES_OK"}

\* A check that takes FEATURES_OK as set.
features_ok_unread(status) == TRUE

\* (self.device_status() & DEVICE_STATUS_FEATURES_OK) != 0
features_ok(status) == "FEATURES_OK" \in status

\* compute_layout(queue_size).num_frames
num_frames_of_layout(queue_size) ==
    LET align(x) == ((x + FrameSize - 1) \div FrameSize) * FrameSize
        descriptor_table_size == 16 * queue_size
        available_ring_size == 6 + 2 * queue_size
        used_ring_size == 6 + 8 * queue_size
    IN  (align(descriptor_table_size + available_ring_size) + align(used_ring_size))
            \div FrameSize

\* The device that is being initialized.
this == Len(dev.nature)

\* The step of the driver at pc: the write to the device status register or
\* what else it does, and where it goes on.
DeviceStep(pc, bit, next) ==
    /\ dev.pc = pc
    /\ dev' = [dev EXCEPT
                !.pc = next,
                !.status[this] = device_status_written(dev.nature[this], @ \cup {bit}),
                !.log[this] = Append(@, bit)]

\* Block::scan finds the next virtio block device; from_pci_device gives up
\* on a device without MSI-X entries and Configuration::from_pci_device on one
\* whose BAR0 is no I/O port.
ScanDevice(nature) ==
    /\ dev.pc = "scan"
    /\ this < MaxDevices
    /\ dev' = [dev EXCEPT
                !.pc = IF nature.msi_x = "ok" /\ nature.io_port THEN "acknowledge" ELSE "scan",
                !.nature = Append(@, nature),
                !.status = Append(@, {}),
                !.log = Append(@, <<>>)]
    /\ UNCHANGED <<req, blk, notblock, dvars>>

\* Configuration::initialize: the writes of ACKNOWLEDGE and of DRIVER.
SetAcknowledge ==
    /\ DeviceStep("acknowledge", "ACKNOWLEDGE", "driver")
    /\ UNCHANGED <<req, blk, notblock, dvars>>

SetDriver ==
    /\ DeviceStep("driver", "DRIVER", "features")
    /\ UNCHANGED <<req, blk, notblock, dvars>>

\* The read of the device features and the write of the driver features.
SetDriverFeatures ==
    /\ dev.pc = "features"
    /\ dev' = [dev EXCEPT !.pc = "features_ok",
                          !.log[this] = Append(@, "driver_features")]
    /\ UNCHANGED <<req, blk, notblock, dvars>>

SetFeaturesOk ==
    /\ DeviceStep("features_ok", "FEATURES_OK", "check")
    /\ UNCHANGED <<req, blk, notblock, dvars>>

\* The status is read back: without FEATURES_OK initialize returns Err and
\* the scan goes on.
CheckFeaturesOk ==
    /\ dev.pc = "check"
    /\ dev' = [dev EXCEPT
                !.pc = IF features_ok(dev.status[this]) THEN "queue" ELSE "scan",
                !.log[this] = Append(@, IF features_ok(dev.status[this])
                                        THEN "Ok" ELSE "Err")]
    /\ UNCHANGED <<req, blk, notblock, dvars>>

\* VirtQueue::new for queue 0: Err for a queue of size 0 and when the frame
\* manager has not the frames of its layout.
NewQueue ==
    /\ dev.pc = "queue"
    /\ LET queue_size == dev.nature[this].queue_size
           r == IF queue_size = 0 THEN [m |-> fm, ret |-> {}]
                ELSE allocate(fm, num_frames_of_layout(queue_size))
       IN  /\ fm' = r.m
           /\ ranges' = IF r.ret = {} THEN ranges
                        ELSE Append(ranges, <<Get(r.ret), num_frames_of_layout(queue_size)>>)
           /\ flast' = IF queue_size = 0 THEN flast
                       ELSE [flast EXCEPT !.op = "allocate",
                                          !.num_frames = num_frames_of_layout(queue_size),
                                          !.frame = 0, !.ret = r.ret, !.before = fm]
           /\ dev' = [dev EXCEPT
                        !.pc = IF r.ret = {} THEN "scan" ELSE "driver_ok",
                        !.log[this] = Append(@, IF r.ret = {} THEN "Err" ELSE "queue")]
    /\ UNCHANGED <<req, blk, svars, cvars, qvars, dvars, avars, ovars>>

\* set_driver_ok, and the push of the Block to the blocks of the scan.
SetDriverOk ==
    /\ dev.pc = "driver_ok"
    /\ dev' = [dev EXCEPT
                !.pc = "scan",
                !.status[this] = device_status_written(dev.nature[this], @ \cup {"DRIVER_OK"}),
                !.log[this] = Append(@, "DRIVER_OK"),
                !.blocks = Append(@, this)]
    /\ UNCHANGED <<req, blk, notblock, dvars>>

NextDevices ==
    \/ \E nature \in Natures : ScanDevice(nature)
    \/ SetAcknowledge
    \/ SetDriver
    \/ SetDriverFeatures
    \/ SetFeaturesOk
    \/ CheckFeaturesOk
    \/ NewQueue
    \/ SetDriverOk

SpecDevices == Init /\ [][NextDevices]_vars

(* ----------------- claims: Block device initialization ---------------- *)
\* What the driver does to a device it initializes to the end, in order.
Handshake ==
    <<"ACKNOWLEDGE", "DRIVER", "driver_features", "FEATURES_OK", "Ok", "queue", "DRIVER_OK">>

\* The device is out of the scan with an Err.
Failed(d) == dev.log[d] # <<>> /\ dev.log[d][Len(dev.log[d])] = "Err"

\* C24: the driver sets ACKNOWLEDGE, DRIVER, writes the driver features and
\* sets FEATURES_OK, in this order; it sets DRIVER_OK only after it has read
\* FEATURES_OK back as set and has created the requestq; where FEATURES_OK
\* does not stick or the queue cannot be created, DRIVER_OK is never set and
\* no Block is registered.
C24_Handshake ==
    \A d \in 1..Len(dev.nature) :
        /\ \/ IsPrefix(dev.log[d], Handshake)
           \/ /\ Failed(d)
              /\ IsPrefix(SubSeq(dev.log[d], 1, Len(dev.log[d]) - 1), Handshake)
        /\ "DRIVER_OK" \in dev.status[d] =>
                /\ {"ACKNOWLEDGE", "DRIVER", "FEATURES_OK"} \subseteq dev.status[d]
                /\ dev.nature[d].accepts
                /\ dev.nature[d].queue_size > 0
                /\ \E j \in 1..Len(ranges) : ranges[j][2] = num_frames_of_layout(VqSize)
        /\ (d < this \/ dev.pc = "scan") /\
           (~dev.nature[d].accepts \/ dev.nature[d].queue_size = 0 \/ Failed(d)) =>
                /\ "DRIVER_OK" \notin dev.status[d]
                /\ d \notin SeqRange(dev.blocks)
        /\ d \in SeqRange(dev.blocks) <=> "DRIVER_OK" \in dev.status[d]

\* The scan is over: a device has been registered, one has not taken
\* FEATURES_OK, and for one the queue could not be created.
C24_Witness ==
    /\ dev.pc = "scan"
    /\ Len(dev.nature) = 3
    /\ dev.blocks # <<>>
    /\ \E d \in 1..3 : ~dev.nature[d].accepts /\ Len(dev.log[d]) = 5
    /\ \E d \in 1..3 : Len(dev.log[d]) = 6 /\ Failed(d)

(* ------------------- virtio Block: request and collect ---------------- *)
\* What the requests of the tasks leave as it is.
notrequest == <<req, dev, cvars, qvars, fvars, avars, ovars>>

\* Block::queue_wait_channel, the address of the Block, and the
\* complete_channel of the request of task id, the address of its footer.
queue_wait_channel == 4
complete_channel(id) == 5 + id

\* The task whose footer is at the address complete_channel was made from.
requester_of(chan) == chan - complete_channel(0)

\* RequestFooter::new
RequestFooter_new(status) == [status |-> status, written |-> FALSE]

\* RequestFooter::into_result
into_result(status) ==
    CASE status = 0 -> "Ok"
      [] status = 1 -> "Io"
      [] status = 2 -> "Unsupported"
      [] OTHER -> "Unknown"

\* The status bytes a device writes.
Statuses == {0, 1}

\* The program of a task that calls Block::read or Block::write once.
Requester == [pc |-> "request", i |-> 0, tmp |-> 0]

\* The closure Block::collect hands to VirtQueue::collect, over the data
\* collected: release of every channel that is Some.
RECURSIVE collect_handle(_, _)
collect_handle(tq, handled) ==
    IF handled = <<>> THEN tq
    ELSE collect_handle(IF Head(handled) # {} THEN release(tq, Get(Head(handled)))
                        ELSE tq,
                        Tail(handled))

\* A collect that leaves the tasks on queue_wait_channel where they are.
\* (r and t are bound, so that collect is evaluated once.)
Block_collect_unreleased(q, tq) ==
    CHOOSE ret \in UNION {{[q |-> r.q, queue |-> t] :
                                t \in {collect_handle(tq, r.handled)}} :
                            r \in {collect(q)}} : TRUE

\* Block::collect on the requestq q and the TaskQueue tq
Block_collect(q, tq) ==
    CHOOSE ret \in UNION {{[q |-> r.q, queue |-> release(t, queue_wait_channel)] :
                                t \in {collect_handle(tq, r.handled)}} :
                            r \in {collect(q)}} : TRUE

\* The boot thread adds a task that is to call read or write; the tasks are
\* of one level.
RequestSpawn(c, priority) ==
    /\ cur_free(c)
    /\ running_task[c] = {}
    /\ task_id_gen < MaxRequesters
    /\ \A l \in Levels \ {priority} : queue.runnable_tasks[l] = <<>>
    /\ task_id_gen' = task_id_gen + 1
    /\ queue' = enqueue(queue, Task_new(task_id_gen, priority))
    /\ saved' = MapInsert(saved, task_id_gen, TRUE)
    /\ prog' = MapInsert(prog, task_id_gen, Requester)
    /\ blk' = [blk EXCEPT !.footer = MapInsert(@, task_id_gen, RequestFooter_new(0)),
                          !.ret = MapInsert(@, task_id_gen, {})]
    /\ last' = [NoOp EXCEPT !.op = "add", !.before = queue, !.now = ticks]
    /\ picks' = <<>>
    /\ sleep_at' = MapInsert(sleep_at, task_id_gen, {})
    /\ UNCHANGED <<running_task, TICKS, sw, mutex, counter, dvars, notrequest>>

\* Block::request from the lock of the requestq to the block: one round of
\* the loop.  The footer is made before the first round.  transfer has
\* failed: block on queue_wait_channel, then the next round; it has
\* succeeded: set_queue_notify, then block on complete_channel.  Both
\* blocks take the guard of the requestq along, up to the request of the
\* queue lock.
RequestTransfer(c) ==
    /\ sw[c].pc = "run"
    /\ running_task[c] # {}
    /\ cur_pc(c) \in {"request", "retry"}
    /\ mutex.spin = {}
    /\ vq.panic = {}
    /\ \E id \in {cur_id(c)} :
       \E r \in {transfer(vq, <<{}, {}, Some(complete_channel(id))>>)} :
           /\ vq' = r.q
           /\ blk' = [blk EXCEPT
                        !.footer[id] = IF cur_pc(c) = "request"
                                       THEN RequestFooter_new(0) ELSE @,
                        !.stalled = IF r.ret = "Err" THEN @ \cup {id} ELSE @]
           /\ IF r.ret = "Err"
              THEN switch_enter(c, OpBlock(queue_wait_channel, {}), "retry")
              ELSE switch_enter(c, OpBlock(complete_channel(id), {}), "return")
           /\ sleep_at' = MapInsert(sleep_at, id, {})
    /\ mutex' = [mutex EXCEPT !.spin = Some(c)]
    /\ UNCHANGED <<queue, TICKS, last, picks, counter, vdev, vlast, notrequest>>

\* The end of Block::request: footer.into_result().  A task cannot return:
\* after its request it runs on.
RequestReturn(c) ==
    /\ at(c, "return")
    /\ LET id == cur_id(c)
       IN  /\ blk' = [blk EXCEPT !.ret[id] =
                        Some([result |-> into_result(blk.footer[id].status),
                              completed |-> blk.footer[id].written])]
           /\ prog' = [prog EXCEPT ![id].pc = "done"]
    /\ UNCHANGED <<task_id_gen, queue, running_task, TICKS, saved, sw, hvars,
                   mutex, counter, dvars, notrequest>>

\* The device has processed a chain it has taken: it writes the status to
\* the footer, the last buffer of the chain, puts the head to the used ring
\* and sends the interrupt of the requestq.
BlockDeviceUse(head, status) ==
    /\ head \in vdev.taken
    /\ LET chain == Chain(vq, head)
           data == vq.buffer_associated_data[chain[Len(chain)]]
           id == requester_of(Get(Get(data)))
       IN  /\ data # {} /\ Get(data) # {}
           /\ blk' = [blk EXCEPT !.footer[id] = [status |-> status, written |-> TRUE],
                                 !.irq = TRUE]
    /\ vdev' = [vdev EXCEPT !.taken = @ \ {head}]
    /\ vq' = [vq EXCEPT !.used_ring.ring[ring_at(vq.used_ring.idx)] = head,
                        !.used_ring.idx = wrapping_inc(@)]
    /\ vlast' = [vlast EXCEPT !.op = "device"]
    /\ UNCHANGED <<svars, notrequest>>

\* The handler of the interrupt of the requestq, entered where interrupts
\* are enabled: Block::collect of the block.
virtio_block_handler(c) ==
    /\ Interruptible(c)
    /\ blk.irq
    /\ vq.panic = {}
    /\ \E r \in {Block_collect(vq, queue)} :
           /\ vq' = r.q
           /\ queue' = r.queue
    /\ blk' = [blk EXCEPT !.irq = FALSE]
    /\ last' = [NoOp EXCEPT !.op = "release", !.before = queue,
                            !.chan = {queue_wait_channel}, !.now = ticks]
    /\ picks' = <<>>
    /\ UNCHANGED <<task_id_gen, running_task, TICKS, saved, sw, sleep_at,
                   mutex, counter, prog, vdev, vlast, notrequest>>

\* timer_handler with the tick counter wrapping, as fetch_add does.
RequestTimer(c) ==
    /\ Interruptible(c)
    /\ TICKS' = (TICKS + 1) % TickWrap
    /\ switch_enter(c, OpYield, cur_pc(c))
    /\ sleep_at' = MapInsert(sleep_at, cur_id(c), {})
    /\ UNCHANGED <<queue, last, picks, mutex, counter>>
    /\ UNCHANGED notsched

BlockDeviceProcess == \E head \in 0..(VqSize - 1), status \in Statuses :
                            BlockDeviceUse(head, status)

NextRequest ==
    \E c \in Cpus :
        \/ \E priority \in PriorityMin..1 : RequestSpawn(c, priority)
        \/ RequestTransfer(c)
        \/ SwitchLocked(c)
        \/ SwitchEnd(c)
        \/ RequestReturn(c)
        \/ DeviceTake
        \/ BlockDeviceProcess
        \/ virtio_block_handler(c)
        \/ RequestTimer(c)

SpecRequest == Init /\ [][NextRequest]_vars

\* The CPU goes on through switch, the timer comes where interrupts are
\* enabled, and the device processes what is published.  An interrupt of the
\* requestq that was sent stays pending until it is taken, and a task that is
\* given the CPU again and again makes its step before the timer takes the
\* CPU from it: strong fairness for both.
FairRequest ==
    /\ \A c \in Cpus :
        /\ SF_vars(RequestTransfer(c) \/ RequestReturn(c))
        /\ WF_vars(SwitchLocked(c) \/ SwitchEnd(c))
        /\ SF_vars(virtio_block_handler(c))
        /\ WF_vars(RequestTimer(c))
    /\ WF_vars(DeviceTake \/ BlockDeviceProcess)

SpecRequestFair == SpecRequest /\ FairRequest

(* ---------------- claims: virtio Block request and collect ------------ *)
\* The tasks that request, and those whose request has returned.
Requesters == DOMAIN blk.ret
Returned == {id \in Requesters : blk.ret[id] # {}}

\* Block::collect has just run.
Collected == last.op = "release" /\ last.chan = {queue_wait_channel}

OwnedByDevice(id) ==
    \E i \in InUse(vq) : vq.buffer_associated_data[i] = Some(Some(complete_channel(id)))

\* Task id is inside the block on its complete_channel: about to take the
\* queue lock, or pending under the channel.
InCompleteBlock(id) ==
    \/ \E c \in Cpus :
           /\ sw[c].pc = "taken"
           /\ Get(sw[c].current).id = id
           /\ Get(sw[c].op) = OpBlock(complete_channel(id), {})
    \/ \E p \in BlockedOn(queue, complete_channel(id)) : queue.pending_tasks[p].id = id

notarray == <<qlock, svars, cvars, qvars, dvars, bvars, fvars, avars>>

\* ArrayIndex::array_index of an integer key
array_index(i) == i

\* A bucket_index that looks at the bucket of the key alone.
bucket_index_unprobed(a, i) ==
    LET index == array_index(i) % ArrayN
    IN  IF a.buckets[index] = {} THEN Some(<<"Vacant", index>>)
        ELSE Some(<<"Occupied", index>>)

\* The loop of Array::bucket_index from offset on: open addressing.
RECURSIVE bucket_index_from(_, _, _)
bucket_index_from(a, i, offset) ==
    IF offset >= ArrayN THEN {}
    ELSE LET index == (array_index(i) + offset) % ArrayN
         IN  IF a.buckets[index] = {} THEN Some(<<"Vacant", index>>)
             ELSE IF Get(a.buckets[index])[1] = i THEN Some(<<"Occupied", index>>)
             ELSE bucket_index_from(a, i, offset + 1)

\* Array::bucket_index
bucket_index(a, i) == bucket_index_from(a, i, 0)

\* Array::len
Array_len(a) == a.len

\* Array::get
Array_get(a, i) ==
    LET b == bucket_index(a, i)
    IN  IF b # {} /\ Get(b)[1] = "Occupied"
        THEN Some(Get(a.buckets[Get(b)[2]])[2])
        ELSE {}

\* Array::insert: the Array it leaves, what it returns, and the panic of
\* expect when bucket_index finds neither the key nor a vacant bucket.
Array_insert(a, i, v) ==
    LET b == bucket_index(a, i)
    IN  IF b = {} THEN [array |-> a, ret |-> {}, panic |-> Some("Array is full")]
        ELSE IF Get(b)[1] = "Vacant"
        THEN [array |-> [a EXCEPT !.buckets[Get(b)[2]] = Some(<<i, v>>), !.len = @ + 1],
              ret |-> {}, panic |-> {}]
        ELSE [array |-> [a EXCEPT !.buckets[Get(b)[2]] = Some(<<i, v>>)],
              ret |-> Some(Get(a.buckets[Get(b)[2]])[2]), panic |-> {}]

\* Array::iter / into_iter: the buckets in order, flattened.
RECURSIVE Array_iter_from(_, _)
Array_iter_from(a, index) ==
    IF index >= ArrayN THEN <<>>
    ELSE (IF a.buckets[index] = {} THEN <<>> ELSE <<Get(a.buckets[index])>>)
         \o Array_iter_from(a, index + 1)
Array_iter(a) == Array_iter_from(a, 0)

\* A call of insert(i, v) on an Array that holds the key or fewer than N keys.
ArrayInsert(i, v) ==
    /\ i \in DOMAIN shadow.map \/ Cardinality(DOMAIN shadow.map) < ArrayN
    /\ LET r == Array_insert(array, i, v)
       IN  /\ array' = r.array
           /\ shadow' = [map |-> (i :> v) @@ shadow.map, op |-> "insert", key |-> i,
                         value |-> v, ret |-> IF r.panic # {} THEN r.panic ELSE r.ret,
                         prev |-> IF i \in DOMAIN shadow.map THEN Some(shadow.map[i]) ELSE {}]
    /\ UNCHANGED notarray

\* A call of get(i)
ArrayGet(i) ==
    /\ shadow' = [shadow EXCEPT !.op = "get", !.key = i, !.value = 0,
                                !.ret = Array_get(array, i),
                                !.prev = IF i \in DOMAIN shadow.map
                                         THEN Some(shadow.map[i]) ELSE {}]
    /\ UNCHANGED <<array, notarray>>

NextArray ==
    \/ \E i \in 0..MaxKey, v \in 0..MaxValue : ArrayInsert(i, v)
    \/ \E i \in 0..MaxKey : ArrayGet(i)

SpecArray == Init /\ [][NextArray]_vars

(* -------------------- claims: non_contiguous::Array ------------------- *)
\* C32: over every sequence of inserts with at most N distinct keys, keys
\* that collide modulo N among them, the Array is the map the inserts
\* describe: insert returns None for a new key and the value it replaces for a
\* key it holds, get returns the value inserted last or None, len is the
\* number of distinct keys, and the iteration yields one pair for every key.
C32_ArrayIsMap ==
    /\ shadow.op \in {"insert", "get"} => shadow.ret = shadow.prev
    /\ \A i \in 0..MaxKey :
           Array_get(array, i) = IF i \in DOMAIN shadow.map THEN Some(shadow.map[i]) ELSE {}
    /\ Array_len(array) = Cardinality(DOMAIN shadow.map)
    /\ Len(Array_iter(array)) = Cardinality(DOMAIN shadow.map)
    /\ SeqRange(Array_iter(array)) = {<<i, shadow.map[i]>> : i \in DOMAIN shadow.map}

\* The Array is full, with two keys that collide modulo N, one of them given a
\* second value, and the insert has returned the first.
C32_Witness ==
    /\ Array_len(array) = ArrayN
    /\ \E i, j \in DOMAIN shadow.map : i # j /\ i % ArrayN = j % ArrayN
    /\ shadow.op = "insert"
    /\ shadow.ret # {}
    /\ shadow.ret # Some(shadow.value)
    /\ array.buckets[shadow.key % ArrayN] # Some(<<shadow.key, shadow.value>>)
(* ---------------- the lock of TaskScheduler.queue --------------------- *)
\* TaskScheduler.queue is declared as Mutex<TaskQueue> with Mutex imported
\* from crate::sync::mutex (task.rs, lines 4 and 35): this part follows
\* queue.lock() and the drop of its guard through sync/mutex.rs as it stands.
\* The parts above take the section under the lock as one step.

\* What the calls that lock the queue leave as it is.
notlock == <<running_task, saved, sw, sleep_at, picks, counter, prog, scopes,
             contexts, qvars, dvars, bvars, fvars, avars, nvars>>

\* The methods of TaskScheduler that lock the queue outside switch.
LockingMethods == {"add", "release", "elapse"}

\* Spin::lock on the Spin of the Mutex: Cli::new, then the spin::Mutex.
Spin_lock(c) == Cli_new(thread_state[c], intr[c])

\* MutexGuard::new where it finds the Mutex free: `*locked = true; break`,
\* which drops the SpinGuard and the Cli in it.
MutexGuard_new(ts, enabled) == Cli_drop(ts, enabled)

\* add, release or elapse of the TaskScheduler, up to the Spin::lock of
\* MutexGuard::new.  The caller is a task that runs with interrupts enabled,
\* or code inside a Cli of its own, as kernel_main2 is when it adds the first
\* task.
QueueLockCall(c, method, in_cli) ==
    /\ panic = {}
    /\ qlock[c].pc = "idle"
    /\ mutex.spin = {}
    /\ method = "add" => task_id_gen < MaxTasks
    /\ LET outer == IF in_cli THEN Cli_new(thread_state[c], intr[c])
                    ELSE [thread_state |-> thread_state[c], intr |-> intr[c]]
           spin == Cli_new(outer.thread_state, outer.intr)
       IN  /\ thread_state' = [thread_state EXCEPT ![c] = spin.thread_state]
           /\ intr' = [intr EXCEPT ![c] = spin.intr]
    /\ mutex' = [mutex EXCEPT !.spin = Some(c)]
    /\ qlock' = [qlock EXCEPT ![c] = [pc |-> "spin", fn |-> method, depth |-> 0]]
    /\ UNCHANGED <<task_id_gen, queue, TICKS, last, iframe, panic, notlock>>

\* MutexGuard::new finds `locked` false: the Mutex is taken and the SpinGuard
\* dropped.
QueueLockTake(c) ==
    /\ panic = {}
    /\ qlock[c].pc = "spin"
    /\ ~mutex.locked
    /\ LET r == MutexGuard_new(thread_state[c], intr[c])
       IN  /\ thread_state' = [thread_state EXCEPT ![c] = r.thread_state]
           /\ intr' = [intr EXCEPT ![c] = r.intr]
           /\ panic' = r.panic
    /\ mutex' = [locked |-> TRUE, spin |-> {}]
    /\ qlock' = [qlock EXCEPT ![c].pc = "held"]
    /\ UNCHANGED <<task_id_gen, queue, TICKS, last, iframe, notlock>>

\* MutexGuard::new finds `locked` true: scheduler().block(chan, None, locked),
\* which enters switch: Cli::new and the assertion on ncli; past it, the
\* queue.lock() of switch spins on the Spin whose guard the closure holds.
QueueLockFound(c) ==
    /\ panic = {}
    /\ qlock[c].pc = "spin"
    /\ mutex.locked
    /\ LET cli == Cli_new(thread_state[c], intr[c])
       IN  /\ thread_state' = [thread_state EXCEPT ![c] = cli.thread_state]
           /\ intr' = [intr EXCEPT ![c] = cli.intr]
           /\ panic' = IF cli.thread_state.ncli = 1 + 1 THEN {}
                       ELSE Some("assertion failed: ncli == 1 + other_cli")
    /\ qlock' = [qlock EXCEPT ![c].pc = "stuck"]
    /\ UNCHANGED <<task_id_gen, queue, TICKS, last, mutex, iframe, notlock>>

\* What the method does on the TaskQueue under the guard.  A release made by
\* the drop of the guard is of the channel of the Mutex.
QueueLockOp(c, priority, chan) ==
    /\ panic = {}
    /\ qlock[c].pc = "held"
    /\ CASE qlock[c].fn = "add" ->
              /\ queue' = enqueue(queue, Task_new(task_id_gen, priority))
              /\ task_id_gen' = task_id_gen + 1
         [] qlock[c].fn = "release" ->
              /\ queue' = release(queue, IF qlock[c].depth = 0 THEN chan ELSE MutexChan)
              /\ UNCHANGED task_id_gen
         [] OTHER ->
              /\ queue' = elapse(queue)
              /\ UNCHANGED task_id_gen
    /\ last' = [NoOp EXCEPT !.op = qlock[c].fn, !.before = queue, !.now = ticks]
    /\ qlock' = [qlock EXCEPT ![c].pc = "drop"]
    /\ UNCHANGED <<TICKS, mutex, thread_state, intr, iframe, panic, notlock>>

\* Drop for MutexGuard: `*locked.lock() = false`, a Spin::lock and the drop of
\* its guard, then scheduler().release(chan), which is followed up to the
\* Spin::lock of its own queue.lock().
QueueLockDrop(c) ==
    /\ panic = {}
    /\ qlock[c].pc = "drop"
    /\ qlock[c].depth < MaxLockDepth
    /\ LET unlocked == Cli_drop(Spin_lock(c).thread_state, Spin_lock(c).intr)
           again == Cli_new(unlocked.thread_state, unlocked.intr)
       IN  /\ thread_state' = [thread_state EXCEPT ![c] = again.thread_state]
           /\ intr' = [intr EXCEPT ![c] = again.intr]
           /\ panic' = unlocked.panic
    /\ mutex' = [locked |-> FALSE, spin |-> Some(c)]
    /\ qlock' = [qlock EXCEPT ![c] = [pc |-> "spin", fn |-> "release", depth |-> @.depth + 1]]
    /\ UNCHANGED <<task_id_gen, queue, TICKS, last, iframe, notlock>>

\* The timer interrupt arrives while a method holds the guard: the gate
\* clears the flag, timer_handler counts the tick, and its switch makes its
\* Cli, passes the assertion on ncli or panics, and asks for the queue lock.
QueueLockTimer(c) ==
    /\ panic = {}
    /\ intr[c]
    /\ iframe[c] = {}
    /\ qlock[c].pc \in {"held", "drop"}
    /\ TICKS < MaxTicks
    /\ TICKS' = TICKS + 1
    /\ iframe' = [iframe EXCEPT ![c] = {intr[c]}]
    /\ LET cli == Cli_new(thread_state[c], FALSE)
           spin == Cli_new(cli.thread_state, cli.intr)
       IN  IF cli.thread_state.ncli = 1
           THEN /\ thread_state' = [thread_state EXCEPT ![c] = spin.thread_state]
                /\ intr' = [intr EXCEPT ![c] = FALSE]
                /\ mutex' = [mutex EXCEPT !.spin = Some(c)]
                /\ qlock' = [qlock EXCEPT ![c] = [pc |-> "spin", fn |-> "yield",
                                                  depth |-> @.depth + 1]]
                /\ UNCHANGED panic
           ELSE /\ thread_state' = [thread_state EXCEPT ![c] = cli.thread_state]
                /\ intr' = [intr EXCEPT ![c] = FALSE]
                /\ panic' = Some("assertion failed: ncli == 1 + other_cli")
                /\ UNCHANGED <<mutex, qlock>>
    /\ UNCHANGED <<task_id_gen, queue, last, notlock>>

NextQueueLock ==
    \E c \in Cpus :
        \/ \E method \in LockingMethods, in_cli \in BOOLEAN : QueueLockCall(c, method, in_cli)
        \/ QueueLockTake(c)
        \/ QueueLockFound(c)
        \/ \E priority \in Levels, chan \in Chans : QueueLockOp(c, priority, chan)
        \/ QueueLockDrop(c)
        \/ QueueLockTimer(c)

SpecQueueLock == Init /\ [][NextQueueLock]_vars

(* --------------------- claims: the queue lock ------------------------- *)
\* C36: while a method of the scheduler holds the queue lock the interrupts of
\* its CPU are disabled, a handler that asks for the queue lock does not find
\* it held by the code it interrupted, and neither taking the lock nor
\* dropping its guard calls the scheduler again.
C36_QueueLockCli ==
    \A c \in Cpus :
        /\ qlock[c].pc \in {"held", "drop"} => ~intr[c]
        /\ qlock[c].fn = "yield" => ~mutex.locked
        /\ qlock[c].depth > 0 => qlock[c].fn = "yield"

(* ---------------------- switch on several CPUs ------------------------ *)
\* The scheduler with every CPU of Cpu::list() running tasks and entering
\* switch on its own.  The section of switch under the queue lock is one step
\* (switch_locked), which dequeue ends with wait_saved: the step is not taken
\* while the context of the task chosen is marked as not saved.  The end of
\* switch (switch_end) takes no lock of the scheduler.
InitSmp ==
    /\ task_id_gen = 0
    /\ queue = TaskQueue_new
    /\ running_task = [c \in AllCpus |-> {}]
    /\ TICKS = 0
    /\ saved = EmptyMap
    /\ sw = [c \in AllCpus |-> Running]
    /\ last = NoOp
    /\ sleep_at = EmptyMap
    /\ picks = <<>>
    /\ mutex = [locked |-> FALSE, spin |-> {}]
    /\ counter = 0
    /\ prog = EmptyMap
    /\ thread_state = [c \in AllCpus |-> CpuThreadState_new]
    /\ intr = [c \in AllCpus |-> TRUE]
    /\ iframe = [c \in AllCpus |-> {}]
    /\ scopes = [c \in AllCpus |-> NoScopes]
    /\ contexts = EmptyMap
    /\ panic = {}
    /\ inner = <<>>
    /\ qtask = EmptyMap
    /\ log = NoLog
    /\ vq = VirtQueue_new
    /\ vdev = [seen |-> 0, taken |-> {}]
    /\ vlast = NoTransfer
    /\ req = NoRequest
    /\ dev = NoDevices
    /\ blk = NoRequests
    /\ fm = BitmapFrameManager_new
    /\ ranges = <<>>
    /\ flast = NoAllocation
    /\ heap = KernelAllocator_new
    /\ hlast = NoAlloc
    /\ qlock = [c \in AllCpus |-> NoLock]
    /\ array = Array_new
    /\ shadow = NoInserts

NextSmp ==
    \E c \in AllCpus :
        \/ \E priority \in Levels : Add(c, priority)
        \/ Yield(c)
        \/ \E chan \in Chans : Block(c, chan, {})
        \/ SwitchLocked(c)
        \/ SwitchEnd(c)
        \/ \E chan \in Chans : Release(c, chan)

SpecSmp == InitSmp /\ [][NextSmp]_vars

\* The tasks whose context is in the registers and on the stack of c: the task
\* running on c, and inside switch the task that entered it, up to the end of
\* switch_context.
OnCpu(c) ==
    {t.id : t \in running_task[c]} \cup
    (IF sw[c].pc = "run" THEN {} ELSE {t.id : t \in sw[c].current})

\* The tasks reachable through the runnable FIFOs or pending_tasks.
Reachable(q) ==
    {t.id : t \in FifoTasks(q)} \cup
    {q.pending_tasks[id].id : id \in DOMAIN q.pending_tasks}

\* c is in dequeue and the task it pops is marked as not saved: wait_saved spins.
WaitsSaved(c) ==
    /\ sw[c].pc = "taken"
    /\ scheduling_op(Get(sw[c].op)) # {}
    /\ LET cpu_task == Get(sw[c].cpu_task)
           r == dequeue(queue, cpu_task, Get(scheduling_op(Get(sw[c].op))))
       IN  r.task # cpu_task /\ ~saved[r.task.id]

\* C37: with several CPUs in switch, no CPU starts to run the context of a
\* task before the CPU that last ran it has saved it.  No context is on two
\* CPUs; a task reachable through the runnable FIFOs or pending_tasks is
\* marked as not saved exactly while the CPU that switches it out has not
\* saved its registers; and the task dequeue hands out is marked as saved and
\* on no CPU.
C37_SavedBeforeRun ==
    /\ \A c1, c2 \in AllCpus : c1 # c2 => OnCpu(c1) \cap OnCpu(c2) = {}
    /\ \A id \in Reachable(queue) :
            saved[id] <=> \A c \in AllCpus : id \notin OnCpu(c)
    /\ \A id \in Reachable(queue), c \in AllCpus :
            id \in OnCpu(c) => sw[c].pc = "chosen"
    /\ \A c \in AllCpus :
            (sw[c].pc = "chosen" /\ sw[c].cpu_task # sw[c].current) =>
                /\ saved[Get(sw[c].cpu_task).id]
                /\ \A c2 \in AllCpus : Get(sw[c].cpu_task).id \notin OnCpu(c2)

\* One CPU has chosen another task and has yet to save the one it switches
\* out, which is back in a FIFO; the other CPU is in dequeue, pops that task
\* and waits for its context.
C37_Witness ==
    \E c1, c2 \in AllCpus :
        /\ c1 # c2
        /\ sw[c1].pc = "chosen"
        /\ sw[c1].cpu_task # sw[c1].current
        /\ Get(sw[c1].current).id \in Reachable(queue)
        /\ ~saved[Get(sw[c1].current).id]
        /\ WaitsSaved(c2)
        /\ dequeue(queue, Get(sw[c2].cpu_task),
                   Get(scheduling_op(Get(sw[c2].op)))).task = Get(sw[c1].current)

====
